---- MODULE Spec2Model ----
(***************************************************************************)
(* Object-detection lab (Lab_5.ipynb): annotation loading and filtering,   *)
(* ground-truth tensorisation, output interpretation, IoU and accuracy,   *)
(* predict_batch; the webcam helper camera_grab; and the decoding          *)
(* strategies of the text-generation lab (Lab_8.ipynb): greedy search,     *)
(* beam search with the repeated-n-gram rule, Top-K and Top-p sampling.    *)
(* The decoding loop itself is library code: it is modelled as the         *)
(* notebook describes it, over language models with a small vocabulary.    *)
(* Further cells: the dataset setup cell, display_prediction, compute_acc  *)
(* and the train / test split of Lab 5; generate_text and the OOV-dropping *)
(* cell of Assignment_2.ipynb; add_noise of the denoising notebook.        *)
(*                                                                         *)
(* Python floats are IEEE-754 binary64.  They are modelled bit-exactly as  *)
(* records [s, m, e] of value (-1)^s * m * 2^e, where m is a natural       *)
(* number of exactly MantBits bits held as a little-endian sequence of     *)
(* limbs in radix Base, and zero is [s |-> 0, m |-> <<>>, e |-> 0].        *)
(* Every arithmetic operator computes the exact result and rounds it to    *)
(* nearest, ties to even, as the hardware does.                            *)
(***************************************************************************)
EXTENDS Integers, Sequences, FiniteSets, TLC

\* ------------------------------------------------------------------------
\* Natural numbers of any size: little-endian limbs, no high zero limb.
\* ------------------------------------------------------------------------
LimbBits == 16 - 4
Base == 2^LimbBits

Abs(n) == IF n < 0 THEN -n ELSE n
Max2(a, b) == IF a >= b THEN a ELSE b
Min2(a, b) == IF a <= b THEN a ELSE b

RECURSIVE BigNorm(_)
BigNorm(a) ==
    IF a = <<>> THEN a
    ELSE IF a[Len(a)] = 0 THEN BigNorm(SubSeq(a, 1, Len(a) - 1)) ELSE a

RECURSIVE BigOfNat(_)
BigOfNat(n) == IF n = 0 THEN <<>> ELSE <<n % Base>> \o BigOfNat(n \div Base)

RECURSIVE NatOfBig(_)
NatOfBig(a) == IF a = <<>> THEN 0 ELSE a[1] + Base * NatOfBig(Tail(a))

Limb(a, i) == IF i <= Len(a) THEN a[i] ELSE 0

RECURSIVE BigAddC(_, _, _, _)
BigAddC(a, b, i, c) ==
    IF i > Len(a) /\ i > Len(b)
    THEN BigOfNat(c)
    ELSE LET s == Limb(a, i) + Limb(b, i) + c
         IN  <<s % Base>> \o BigAddC(a, b, i + 1, s \div Base)

BigAdd(a, b) == BigAddC(a, b, 1, 0)

\* a - b for a >= b
RECURSIVE BigSubC(_, _, _, _)
BigSubC(a, b, i, br) ==
    IF i > Len(a)
    THEN <<>>
    ELSE LET d == Limb(a, i) - Limb(b, i) - br
         IN  <<(d + Base) % Base>> \o BigSubC(a, b, i + 1, IF d < 0 THEN 1 ELSE 0)

BigSub(a, b) == BigNorm(BigSubC(a, b, 1, 0))

RECURSIVE BigCmpAt(_, _, _)
BigCmpAt(a, b, i) ==
    IF i = 0 THEN 0
    ELSE IF a[i] > b[i] THEN 1
    ELSE IF a[i] < b[i] THEN -1
    ELSE BigCmpAt(a, b, i - 1)

\* -1, 0 or 1 as a < b, a = b, a > b
BigCmp(a, b) ==
    IF Len(a) > Len(b) THEN 1
    ELSE IF Len(a) < Len(b) THEN -1
    ELSE BigCmpAt(a, b, Len(a))

\* a * n for a small natural n (n < 2^19 keeps every product below 2^31)
RECURSIVE BigMulC(_, _, _, _)
BigMulC(a, n, i, c) ==
    IF i > Len(a)
    THEN BigOfNat(c)
    ELSE LET p == a[i] * n + c
         IN  <<p % Base>> \o BigMulC(a, n, i + 1, p \div Base)

BigMulSmall(a, n) == IF n = 0 \/ a = <<>> THEN <<>> ELSE BigMulC(a, n, 1, 0)

\* quotient and remainder of a by a small natural n > 0 (n < 2^19)
RECURSIVE BigDivAt(_, _, _, _)
BigDivAt(a, n, i, r) ==
    IF i = 0
    THEN [q |-> <<>>, r |-> r]
    ELSE LET cur  == r * Base + a[i]
             rest == BigDivAt(a, n, i - 1, cur % n)
         IN  [q |-> Append(rest.q, cur \div n), r |-> rest.r]

BigDivSmall(a, n) ==
    LET d == BigDivAt(a, n, Len(a), 0)
    IN  [q |-> BigNorm(d.q), r |-> d.r]

BigShl(a, sh) ==
    IF a = <<>> THEN <<>>
    ELSE [i \in 1..(sh \div LimbBits) |-> 0] \o BigMulSmall(a, 2^(sh % LimbBits))

BigShr(a, sh) ==
    LET k == sh \div LimbBits
    IN  IF k >= Len(a) THEN <<>>
        ELSE BigDivSmall(SubSeq(a, k + 1, Len(a)), 2^(sh % LimbBits)).q

\* number of bits of a small natural: the least k with n < 2^k
BitLenSmall(n) == CHOOSE k \in 0..31 : n < 2^k /\ (k = 0 \/ n >= 2^(k - 1))

BigBitLen(a) ==
    IF a = <<>> THEN 0 ELSE LimbBits * (Len(a) - 1) + BitLenSmall(a[Len(a)])

BigOdd(a) == a # <<>> /\ a[1] % 2 = 1

\* ------------------------------------------------------------------------
\* binary64 arithmetic
\* ------------------------------------------------------------------------
MantBits == 53

\* zero; -0.0 is not kept apart from 0.0, no operation of the notebook tells
\* them apart (-0.0 == 0.0, int(-0.0) == 0)
FZero == [s |-> 0, m |-> <<>>, e |-> 0]

IsZero(x) == x.m = <<>>

\* Rounding.  The operators below take the intermediate values as parameters:
\* FRound(s, big, e, sticky) is the float nearest to (-1)^s * (big + t) * 2^e,
\* where 0 < t < 1 if sticky and t = 0 otherwise; ties go to the even
\* significand.

\* q has MantBits bits, or MantBits + 1 after a carry out of the rounding
FPack(s, q, e) ==
    IF BigBitLen(q) > MantBits
    THEN [s |-> s, m |-> BigShr(q, 1), e |-> e + 1]
    ELSE [s |-> s, m |-> q, e |-> e]

\* r is big without its sh - 1 lowest bits: MantBits bits and a guard bit
FRoundCut(s, big, e, sticky, sh, r) ==
    FPack(s,
          IF BigOdd(r) /\ (sticky \/ BigOdd(BigShr(r, 1))
                            \/ BigCmp(BigShl(r, sh - 1), big) # 0)
          THEN BigAdd(BigShr(r, 1), <<1>>)
          ELSE BigShr(r, 1),
          e + sh)

\* L is the number of bits of big
FRoundLen(s, big, e, sticky, L) ==
    IF L <= MantBits
    THEN [s |-> s, m |-> BigShl(big, MantBits - L), e |-> e - (MantBits - L)]
    ELSE FRoundCut(s, big, e, sticky, L - MantBits, BigShr(big, L - MantBits - 1))

FRound(s, big, e, sticky) ==
    IF big = <<>> THEN FZero ELSE FRoundLen(s, big, e, sticky, BigBitLen(big))

\* qr is a quotient with its remainder
FRoundQuot(s, qr, e) == FRound(s, qr.q, e, qr.r # 0)

\* float(n) for an int n
FOfInt(n) == FRound(IF n < 0 THEN 1 ELSE 0, BigOfNat(Abs(n)), 0, FALSE)

FNeg(x) == IF IsZero(x) THEN x ELSE [x EXCEPT !.s = 1 - x.s]

\* N / D for naturals N, D > 0, with k extra quotient bits
FDivNat(s, N, D, k) == FRoundQuot(s, BigDivSmall(BigShl(BigOfNat(N), k), D), -k)

\* n / d for ints n and d # 0 (Python's true division, correctly rounded)
FDivInts(n, d) ==
    IF n = 0 THEN FZero
    ELSE FDivNat(IF (n < 0) = (d < 0) THEN 0 ELSE 1, Abs(n), Abs(d),
                 Max2(0, MantBits + 2 + BitLenSmall(Abs(d)) - BitLenSmall(Abs(n))))

\* x / n for a nonzero float x and an int n > 0, with k extra quotient bits
FDivSmallBits(x, n, k) == FRoundQuot(x.s, BigDivSmall(BigShl(x.m, k), n), x.e - k)

\* x / n for a float x and an int n > 0
FDivSmall(x, n) ==
    IF IsZero(x) THEN FZero ELSE FDivSmallBits(x, n, 2 + BitLenSmall(n))

\* x * n for a float x and an int n >= 0
FMulSmall(x, n) == FRound(x.s, BigMulSmall(x.m, n), x.e, FALSE)

\* sign and magnitude of (-1)^xs * ax + (-1)^ys * ay
FAddMag(xs, ax, ys, ay) ==
    IF xs = ys THEN [s |-> xs, big |-> BigAdd(ax, ay)]
    ELSE IF BigCmp(ax, ay) >= 0 THEN [s |-> xs, big |-> BigSub(ax, ay)]
    ELSE [s |-> ys, big |-> BigSub(ay, ax)]

FAddRound(sum, e0) == FRound(sum.s, sum.big, e0, FALSE)

\* x + y for nonzero x and y, e0 the smaller exponent
FAddAt(x, y, e0) ==
    FAddRound(FAddMag(x.s, BigShl(x.m, x.e - e0), y.s, BigShl(y.m, y.e - e0)), e0)

FAdd(x, y) ==
    IF IsZero(x) THEN y
    ELSE IF IsZero(y) THEN x
    ELSE FAddAt(x, y, Min2(x.e, y.e))

FSub(x, y) == FAdd(x, FNeg(y))

FSign(x) == IF IsZero(x) THEN 0 ELSE IF x.s = 1 THEN -1 ELSE 1

FCmpMag(x, y, e0) == BigCmp(BigShl(x.m, x.e - e0), BigShl(y.m, y.e - e0))

\* -1, 0 or 1 as x < y, x = y, x > y
FCmp(x, y) ==
    IF FSign(x) # FSign(y) THEN (IF FSign(x) < FSign(y) THEN -1 ELSE 1)
    ELSE IF FSign(x) = 0 THEN 0
    ELSE FSign(x) * FCmpMag(x, y, Min2(x.e, y.e))

\* int(x): truncation toward zero
FTruncMag(x) ==
    IF x.e >= 0 THEN NatOfBig(BigShl(x.m, x.e)) ELSE NatOfBig(BigShr(x.m, -x.e))

FTrunc(x) ==
    IF IsZero(x) THEN 0 ELSE IF x.s = 1 THEN -FTruncMag(x) ELSE FTruncMag(x)


\* pos/neg/zero test of x - p/q for a float x >= 0 and naturals p, q > 0,
\* computed exactly
FCmpRat(x, p, q) ==
    IF IsZero(x) THEN (IF p = 0 THEN 0 ELSE -1)
    ELSE IF x.e >= 0
    THEN BigCmp(BigMulSmall(BigShl(x.m, x.e), q), BigOfNat(p))
    ELSE BigCmp(BigMulSmall(x.m, q), BigShl(BigOfNat(p), -x.e))

\* ------------------------------------------------------------------------
\* Bounds of the model
\* ------------------------------------------------------------------------
MaxCoord   == 3     \* IoU: box corners range over 0..MaxCoord
MaxSize    == 3     \* box transform: image sides 1..MaxSize, corners 0..MaxSize
MaxFiles   == 2     \* annotation files in the folder
MaxObjects == 2     \* <object> elements per annotation file
MaxPreds   == 2     \* length of preds / trues given to accuracy_and_iou

\* ------------------------------------------------------------------------
\* Program constants
\* ------------------------------------------------------------------------
img_resize == 224
filters == <<"dog", "cat", "bus", "car", "aeroplane">>
num_classes == Len(filters)
\* idx2labels[k] for the 0-based index k; labels2idx[name]
idx2labels(k) == filters[k + 1]
labels2idx(name) == (CHOOSE i \in 1..Len(filters) : filters[i] = name) - 1
FilterSet == {filters[i] : i \in 1..Len(filters)}

VARIABLES
    pc,           \* which cell of the notebook runs next
    boxA, boxB,   \* arguments of an iou(...) cell
    iouRes,       \* its result
    preds, trues, \* arguments of accuracy_and_iou
    accRes,       \* its result
    nread,        \* annotation files parsed so far
    lastfile,     \* parsed content of the file of the current loop iteration
    annotations,  \* the annotations list
    classes,      \* tensorize_ground_truth(annotations)[0]
    boxes,        \* tensorize_ground_truth(annotations)[1]
    interp,       \* result of the sanity-check interpret_output cell
    fallback_filename, \* argument of camera_grab
    disk,         \* the image files of the working directory
    camlog,       \* the operations performed on the camera device, in order
    snap_i,       \* iterations of the snapshot loop completed
    snapshot_ok,  \* local of camera_grab
    image,        \* local of camera_grab
    captured,     \* the frame handed out by the last camera.read()
    pending,      \* exception in flight inside camera_grab's try block
    grabRes,      \* outcome of the camera_grab call
    batchArgs,    \* arguments of a predict_batch call and the files they name
    batchRes,     \* its outcome
    lm,           \* the language model: next-token distribution after each token
    input_ids,    \* the encoded context
    genArgs,      \* keyword arguments of the model.generate call
    beams,        \* beam search: the hypotheses kept so far
    ids,          \* greedy search and sampling: the sequence generated so far
    genOut,       \* the sequence model.generate returns
    textArgs,     \* arguments of the generate_text call
    textRes,      \* its outcome
    tokenizer,    \* the fitted Tokenizer
    VOCAB_SIZE,   \* the vocabulary size chosen for the tokenizer
    X, y,         \* the training windows and their targets
    X_train, X_val, y_train, y_val,  \* the outcome of train_test_split
    noiseArgs,    \* argument of add_noise and the noise drawn
    noiseRes,     \* its result
    reprs,        \* the precomputed representation of every image
    bad_model,    \* the model: its output for each representation
    train,        \* argument of the compute_acc call
    outputs,      \* local of compute_acc
    evalRes,      \* outcome of the compute_acc call
    test_num,     \* set by the split cell
    train_num,    \* set by the split cell
    fs,           \* the files and folders of the working directory
    fetched,      \* the URLs retrieved so far, in order
    extracted,    \* number of extractall() calls so far
    cellRun       \* outcomes of the runs of the setup cell, in order

labVars == <<boxA, boxB, iouRes, preds, trues, accRes,
             nread, lastfile, annotations, classes, boxes, interp>>
camVars == <<fallback_filename, disk, camlog, snap_i, snapshot_ok, image,
             captured, pending, grabRes>>
batchVars == <<batchArgs, batchRes>>

genVars == <<lm, input_ids, genArgs, beams, ids, genOut>>

textVars == <<textArgs, textRes>>
oovVars == <<tokenizer, VOCAB_SIZE, X, y, X_train, X_val, y_train, y_val>>
noiseVars == <<noiseArgs, noiseRes>>
evalVars == <<reprs, bad_model, train, outputs, evalRes, test_num, train_num>>
setupVars == <<fs, fetched, extracted, cellRun>>
nbVars == <<textVars, oovVars, noiseVars, evalVars, setupVars>>

vars == <<pc, labVars, camVars, batchVars, genVars, nbVars>>

None == [none |-> TRUE]

\* the variables of the cells that are not run
LabIdle ==
    /\ nread = 0 /\ lastfile = None /\ annotations = <<>>
    /\ classes = <<>> /\ boxes = <<>> /\ interp = None
    /\ boxA = None /\ boxB = None /\ iouRes = None
    /\ preds = <<>> /\ trues = <<>> /\ accRes = None
CamIdle ==
    /\ fallback_filename = None /\ disk = None /\ camlog = <<>>
    /\ snap_i = 0 /\ snapshot_ok = None /\ image = None /\ captured = None
    /\ pending = None /\ grabRes = None
BatchIdle == batchArgs = None /\ batchRes = None
GenIdle ==
    /\ lm = None /\ input_ids = <<>> /\ genArgs = None
    /\ beams = {} /\ ids = <<>> /\ genOut = None
TextIdle == textArgs = None /\ textRes = None
OovIdle ==
    /\ tokenizer = None /\ VOCAB_SIZE = None /\ X = <<>> /\ y = <<>>
    /\ X_train = None /\ X_val = None /\ y_train = None /\ y_val = None
NoiseIdle == noiseArgs = None /\ noiseRes = None
EvalIdle ==
    /\ reprs = <<>> /\ bad_model = None
    /\ train = None /\ outputs = <<>> /\ evalRes = None
    /\ test_num = None /\ train_num = None
SetupIdle == fs = None /\ fetched = <<>> /\ extracted = 0 /\ cellRun = <<>>
NbIdle == TextIdle /\ OovIdle /\ NoiseIdle /\ EvalIdle /\ SetupIdle
ZeroDivisionError == [exc |-> "ZeroDivisionError"]
IndexError == [exc |-> "IndexError"]
Raised(r) == "exc" \in DOMAIN r
Returned(r) == "val" \in DOMAIN r

\* ------------------------------------------------------------------------
\* iou
\* ------------------------------------------------------------------------
\* iou with the intersection not subtracted from the sum of the areas
iou_NoSubtract(bA, bB) ==
    LET x0 == Max2(bA[1], bB[1])
        y0 == Max2(bA[2], bB[2])
        x1 == Min2(bA[3], bB[3])
        y1 == Min2(bA[4], bB[4])
        inter_area == Max2(x1 - x0, 0) * Max2(y1 - y0, 0)
        boxA_area  == (bA[3] - bA[1]) * (bA[4] - bA[2])
        boxB_area  == (bB[3] - bB[1]) * (bB[4] - bB[2])
        den        == boxA_area + boxB_area
    IN  IF den = 0 THEN ZeroDivisionError
        ELSE [val |-> FDivInts(inter_area, den)]

\* iou with the intersection sides not floored at zero
iou_NoFloor(bA, bB) ==
    LET x0 == Max2(bA[1], bB[1])
        y0 == Max2(bA[2], bB[2])
        x1 == Min2(bA[3], bB[3])
        y1 == Min2(bA[4], bB[4])
        inter_area == (x1 - x0) * (y1 - y0)
        boxA_area  == (bA[3] - bA[1]) * (bA[4] - bA[2])
        boxB_area  == (bB[3] - bB[1]) * (bB[4] - bB[2])
        den        == boxA_area + boxB_area - inter_area
    IN  IF den = 0 THEN ZeroDivisionError
        ELSE [val |-> FDivInts(inter_area, den)]

\* iou with the height of boxB taken from boxA
iou_AreaTypo(bA, bB) ==
    LET x0 == Max2(bA[1], bB[1])
        y0 == Max2(bA[2], bB[2])
        x1 == Min2(bA[3], bB[3])
        y1 == Min2(bA[4], bB[4])
        inter_area == Max2(x1 - x0, 0) * Max2(y1 - y0, 0)
        boxA_area  == (bA[3] - bA[1]) * (bA[4] - bA[2])
        boxB_area  == (bB[3] - bB[1]) * (bA[4] - bA[2])
        den        == boxA_area + boxB_area - inter_area
    IN  IF den = 0 THEN ZeroDivisionError
        ELSE [val |-> FDivInts(inter_area, den)]

\* iou with the intersection subtracted from each area
iou_DoubleSubtract(bA, bB) ==
    LET x0 == Max2(bA[1], bB[1])
        y0 == Max2(bA[2], bB[2])
        x1 == Min2(bA[3], bB[3])
        y1 == Min2(bA[4], bB[4])
        inter_area == Max2(x1 - x0, 0) * Max2(y1 - y0, 0)
        boxA_area  == (bA[3] - bA[1]) * (bA[4] - bA[2])
        boxB_area  == (bB[3] - bB[1]) * (bB[4] - bB[2])
        den        == boxA_area + boxB_area - 2 * inter_area
    IN  IF den = 0 THEN ZeroDivisionError
        ELSE [val |-> FDivInts(inter_area, den)]

iou(bA, bB) ==
    LET x0 == Max2(bA[1], bB[1])
        y0 == Max2(bA[2], bB[2])
        x1 == Min2(bA[3], bB[3])
        y1 == Min2(bA[4], bB[4])
        inter_area == Max2(x1 - x0, 0) * Max2(y1 - y0, 0)
        boxA_area  == (bA[3] - bA[1]) * (bA[4] - bA[2])
        boxB_area  == (bB[3] - bB[1]) * (bB[4] - bB[2])
        den        == boxA_area + boxB_area - inter_area
    IN  IF den = 0 THEN ZeroDivisionError
        ELSE [val |-> FDivInts(inter_area, den)]

GridBoxes(n) == (0..n) \X (0..n) \X (0..n) \X (0..n)

\* the boxes of the three iou(...) cells of the notebook
ExampleBoxes == { <<47, 35, 147, 101>>, <<1, 124, 496, 235>>, <<49, 36, 145, 100>> }

IouBoxes == GridBoxes(MaxCoord) \cup ExampleBoxes

InitIou ==
    /\ pc = "iou"
    /\ boxA \in IouBoxes /\ boxB \in IouBoxes
    /\ iouRes = None
    /\ preds = <<>> /\ trues = <<>> /\ accRes = None
    /\ nread = 0 /\ lastfile = None /\ annotations = <<>>
    /\ classes = <<>> /\ boxes = <<>> /\ interp = None
    /\ CamIdle /\ BatchIdle /\ GenIdle /\ NbIdle

IouCell ==
    /\ pc = "iou"
    /\ iouRes' = iou(boxA, boxB)
    /\ pc' = "iou_done"
    /\ UNCHANGED <<boxA, boxB, preds, trues, accRes,
                   nread, lastfile, annotations, classes, boxes, interp>>
    /\ UNCHANGED <<camVars, batchVars, genVars, nbVars>>

NextIou == IouCell

SpecIou == InitIou /\ [][NextIou]_vars

\* ------------------------------------------------------------------------
\* accuracy_and_iou
\* ------------------------------------------------------------------------
FHalf == FDivInts(1, 2)       \* the default threshold 0.5

\* iou_value >= threshold where the code has iou_value > threshold
AboveThreshold_GE(iou_value, threshold) == FCmp(iou_value, threshold) >= 0

\* iou_value > threshold
AboveThreshold(iou_value, threshold) == FCmp(iou_value, threshold) > 0

\* the body of the loop after iou_value is known: the new sums
AccStep(acc, same, iou_value, threshold) ==
    [sum_valid    |-> acc.sum_valid +
                        (IF same /\ AboveThreshold(iou_value, threshold) THEN 1 ELSE 0),
     sum_iou      |-> FAdd(acc.sum_iou, iou_value),
     sum_accurate |-> acc.sum_accurate + (IF same THEN 1 ELSE 0)]

\* the for loop over zip(preds, trues), from pair i on; an exception raised by
\* iou leaves the function
RECURSIVE AccLoop(_, _, _, _, _)
RECURSIVE AccLoopWith(_, _, _, _, _, _)
AccLoopWith(ps, ts, threshold, i, acc, iou_res) ==
    IF Raised(iou_res) THEN iou_res
    ELSE AccLoop(ps, ts, threshold, i + 1,
                 AccStep(acc, ps[i].class = ts[i].class, iou_res.val, threshold))

AccLoop(ps, ts, threshold, i, acc) ==
    IF i > Min2(Len(ps), Len(ts))
    THEN [val |-> acc]
    ELSE AccLoopWith(ps, ts, threshold, i, acc, iou(ps[i].bbox, ts[i].bbox))

\* the return statement, or the exception that reached it
AccReturn(loop, num) ==
    IF Raised(loop) THEN loop
    ELSE IF num = 0 THEN ZeroDivisionError
    ELSE [val |-> << FDivInts(loop.val.sum_accurate, num),
                     FDivSmall(loop.val.sum_iou, num),
                     FDivInts(loop.val.sum_valid, num) >>]

accuracy_and_iou(ps, ts, threshold) ==
    AccReturn(AccLoop(ps, ts, threshold, 1,
                      [sum_valid |-> 0, sum_accurate |-> 0, sum_iou |-> FZero]),
              Len(ps))

SeqUpTo(S, n) == UNION { [1..k -> S] : k \in 0..n }

\* boxes with IoU 1, 2/3, 1/2, 1/3, 0 between them, and one of zero area
AccBoxes == { <<0, 0, 1, 1>>, <<0, 0, 2, 1>>, <<0, 0, 3, 1>>, <<1, 1, 1, 1>> }
AccEntries == [class : {"dog", "cat"}, bbox : AccBoxes]
\* the ground truths: annotations of one class
TrueEntries == [class : {"dog"}, bbox : AccBoxes]

InitAcc ==
    /\ pc = "acc"
    /\ preds \in SeqUpTo(AccEntries, MaxPreds)
    /\ trues \in SeqUpTo(TrueEntries, MaxPreds)
    /\ accRes = None
    /\ boxA = None /\ boxB = None /\ iouRes = None
    /\ nread = 0 /\ lastfile = None /\ annotations = <<>>
    /\ classes = <<>> /\ boxes = <<>> /\ interp = None
    /\ CamIdle /\ BatchIdle /\ GenIdle /\ NbIdle

AccCall ==
    /\ pc = "acc"
    /\ accRes' = accuracy_and_iou(preds, trues, FHalf)
    /\ pc' = "acc_done"
    /\ UNCHANGED <<boxA, boxB, iouRes, preds, trues,
                   nread, lastfile, annotations, classes, boxes, interp>>
    /\ UNCHANGED <<camVars, batchVars, genVars, nbVars>>

NextAcc == AccCall

SpecAcc == InitAcc /\ [][NextAcc]_vars

\* ------------------------------------------------------------------------
\* Loading and filtering the annotations
\* ------------------------------------------------------------------------
\* A parsed annotation file: [width, height, filename, objects], each object
\* [name, xmin, ymin, xmax, ymax].

\* extract_xml_annotation with the corner elements read in the wrong order
extract_xml_annotation_Swapped(doc) ==
    [size     |-> <<doc.width, doc.height>>,
     filename |-> doc.filename,
     objects  |-> [i \in 1..Len(doc.objects) |->
                     [name |-> doc.objects[i].name,
                      bbox |-> << doc.objects[i].xmin, doc.objects[i].xmax,
                                  doc.objects[i].ymin, doc.objects[i].ymax >>]]]

extract_xml_annotation(doc) ==
    [size     |-> <<doc.width, doc.height>>,
     filename |-> doc.filename,
     objects  |-> [i \in 1..Len(doc.objects) |->
                     [name |-> doc.objects[i].name,
                      bbox |-> << doc.objects[i].xmin, doc.objects[i].ymin,
                                  doc.objects[i].xmax, doc.objects[i].ymax >>]]]

\* one iteration of the filtering loop: the new value of annotations
FilterStep(anns, annotation) ==
    LET new_objects == SelectSeq(annotation.objects,
                                 LAMBDA obj : obj.name \in FilterSet)
    IN  IF Len(new_objects) = 1
        THEN Append(anns, [size     |-> annotation.size,
                           filename |-> annotation.filename,
                           class    |-> new_objects[1].name,
                           bbox     |-> new_objects[1].bbox])
        ELSE anns

\* what an annotation file of the folder may hold
XmlNames == {"dog", "aeroplane", "person"}
XmlBoxes == { <<0, 0, 2, 1>>, <<2, 1, 1, 2>> }
XmlObjects ==
    { [name |-> n, xmin |-> b[1], ymin |-> b[2], xmax |-> b[3], ymax |-> b[4]] :
        n \in XmlNames, b \in XmlBoxes }
XmlDocs(fname) ==
    { [width |-> 3, height |-> 2, filename |-> fname, objects |-> objs] :
        objs \in SeqUpTo(XmlObjects, MaxObjects) }

Init ==
    /\ pc = "load"
    /\ nread = 0 /\ lastfile = None /\ annotations = <<>>
    /\ classes = <<>> /\ boxes = <<>> /\ interp = None
    /\ boxA = None /\ boxB = None /\ iouRes = None
    /\ preds = <<>> /\ trues = <<>> /\ accRes = None
    /\ CamIdle /\ BatchIdle /\ GenIdle /\ NbIdle

\* one iteration of "for filename in sorted(os.listdir(annotation_folder))"
ReadFile ==
    /\ pc = "load"
    /\ nread < MaxFiles
    /\ \E doc \in XmlDocs(nread + 1) :
         /\ lastfile' = doc
         /\ annotations' = FilterStep(annotations, extract_xml_annotation(doc))
    /\ nread' = nread + 1
    /\ UNCHANGED <<pc, boxA, boxB, iouRes, preds, trues, accRes,
                   classes, boxes, interp>>
    /\ UNCHANGED <<camVars, batchVars, genVars, nbVars>>

\* the folder listing is exhausted
EndLoop ==
    /\ pc = "load"
    /\ pc' = "loaded"
    /\ lastfile' = None
    /\ UNCHANGED <<boxA, boxB, iouRes, preds, trues, accRes,
                   nread, annotations, classes, boxes, interp>>
    /\ UNCHANGED <<camVars, batchVars, genVars, nbVars>>

\* ------------------------------------------------------------------------
\* tensorize_ground_truth and interpret_output
\* ------------------------------------------------------------------------
\* centre form (cx, cy, w, h) of the corner form (x1, y1, x2, y2)
CenterForm(x1, y1, x2, y2) ==
    << FDivSmall(FAdd(x2, x1), 2), FDivSmall(FAdd(y2, y1), 2),
       FSub(x2, x1), FSub(y2, y1) >>

\* the box of one annotation with x1 scaled by the image height
TensorizeBox_HeightForX(coords, size) ==
    CenterForm(FDivInts(coords[1] * img_resize, size[2]),
               FDivInts(coords[2] * img_resize, size[2]),
               FDivInts(coords[3] * img_resize, size[1]),
               FDivInts(coords[4] * img_resize, size[2]))

\* the box of one annotation: rescale to img_resize, corner to centre form
TensorizeBox(coords, size) ==
    CenterForm(FDivInts(coords[1] * img_resize, size[1]),
               FDivInts(coords[2] * img_resize, size[2]),
               FDivInts(coords[3] * img_resize, size[1]),
               FDivInts(coords[4] * img_resize, size[2]))

\* a one-hot row that takes cls_idx for a 1-based position
OneHot_OneBased(cls_idx) == [k \in 1..num_classes |-> IF k = cls_idx THEN FOfInt(1) ELSE FZero]

\* one-hot row of the 0-based class index
OneHot(cls_idx) == [k \in 1..num_classes |-> IF k = cls_idx + 1 THEN FOfInt(1) ELSE FZero]

\* the pair (classes, boxes); np.vstack raises ValueError on an empty list
tensorize_ground_truth(anns) ==
    IF anns = <<>> THEN [exc |-> "ValueError"]
    ELSE [val |-> << [i \in 1..Len(anns) |-> OneHot(labels2idx(anns[i].class))],
                     [i \in 1..Len(anns) |-> TensorizeBox(anns[i].bbox, anns[i].size)] >>]

\* np.argmax: the 0-based index of the first largest entry
ArgMax(cls) ==
    (CHOOSE i \in 1..Len(cls) :
        /\ \A j \in 1..Len(cls) : FCmp(cls[j], cls[i]) <= 0
        /\ \A j \in 1..(i - 1) : FCmp(cls[j], cls[i]) < 0) - 1

\* max(0, v) and min(img_resize, v)
PyMax0(v) == IF FCmp(v, FZero) > 0 THEN v ELSE FZero
PyMinResize(v) == IF FCmp(v, FOfInt(img_resize)) < 0 THEN v ELSE FOfInt(img_resize)

\* int(v * dim / img_resize)
FullSize(v, dim) == FTrunc(FDivSmall(FMulSmall(v, dim), img_resize))

\* the box of interpret_output: centre to corner form, clip, rescale, truncate
InterpretBox(bx, img_size) ==
    LET cx == bx[1]  cy == bx[2]  w == bx[3]  h == bx[4]
        small_box0 == PyMax0(FSub(cx, FDivSmall(w, 2)))
        small_box1 == PyMax0(FSub(cy, FDivSmall(h, 2)))
        small_box2 == PyMinResize(FAdd(cx, FDivSmall(w, 2)))
        small_box3 == PyMinResize(FAdd(cy, FDivSmall(h, 2)))
    IN  << FullSize(small_box0, img_size[1]),
           FullSize(small_box1, img_size[2]),
           FullSize(small_box2, img_size[1]),
           FullSize(small_box3, img_size[2]) >>

\* the returned dict, cls_idx being np.argmax(cls)
InterpretDict(cls, cls_idx, bx, img_size) ==
    [class      |-> idx2labels(cls_idx),
     confidence |-> cls[cls_idx + 1],
     bbox       |-> InterpretBox(bx, img_size)]

interpret_output(cls, bx, img_size) == InterpretDict(cls, ArgMax(cls), bx, img_size)

\* classes, boxes = tensorize_ground_truth(annotations)
TensorizeResult(t) ==
    IF Raised(t)
    THEN pc' = "error" /\ UNCHANGED <<classes, boxes>>
    ELSE pc' = "tensorized" /\ classes' = t.val[1] /\ boxes' = t.val[2]

Tensorize ==
    /\ pc = "loaded"
    /\ TensorizeResult(tensorize_ground_truth(annotations))
    /\ UNCHANGED <<boxA, boxB, iouRes, preds, trues, accRes,
                   nread, lastfile, annotations, interp>>
    /\ UNCHANGED <<camVars, batchVars, genVars, nbVars>>

\* img_idx = 1 of the sanity-check cells, an index counted from 0
img_idx == 1

\* the sanity-check cells: print annotations[img_idx], then interpret the
\* tensors of that annotation. With fewer than img_idx + 1 annotations the
\* subscript raises IndexError.
SanityCheck ==
    /\ pc = "tensorized"
    /\ IF img_idx + 1 > Len(annotations)
       THEN interp' = IndexError /\ pc' = "check_error"
       ELSE /\ interp' = [idx |-> img_idx + 1,
                          out |-> interpret_output(classes[img_idx + 1],
                                                   boxes[img_idx + 1],
                                                   annotations[img_idx + 1].size)]
            /\ pc' = "checked"
    /\ UNCHANGED <<boxA, boxB, iouRes, preds, trues, accRes,
                   nread, lastfile, annotations, classes, boxes>>
    /\ UNCHANGED <<camVars, batchVars, genVars, nbVars>>

Next == ReadFile \/ EndLoop \/ Tensorize \/ SanityCheck

Spec == Init /\ [][Next]_vars

\* The state after loading a folder that holds two annotation files with one
\* object each: for the second, the one the sanity check looks at, any image
\* size and any four corner values of the grid.
InitBox ==
    /\ pc = "loaded"
    /\ nread = 2 /\ lastfile = None
    /\ \E W \in 1..MaxSize, H \in 1..MaxSize, b \in GridBoxes(MaxSize) :
         annotations = << [size |-> <<MaxSize, MaxSize>>, filename |-> 1,
                           class |-> "cat", bbox |-> <<0, 0, MaxSize, MaxSize>>],
                          [size |-> <<W, H>>, filename |-> 2,
                           class |-> "dog", bbox |-> b] >>
    /\ classes = <<>> /\ boxes = <<>> /\ interp = None
    /\ boxA = None /\ boxB = None /\ iouRes = None
    /\ preds = <<>> /\ trues = <<>> /\ accRes = None
    /\ CamIdle /\ BatchIdle /\ GenIdle /\ NbIdle

NextBox == Tensorize \/ SanityCheck

SpecBox == InitBox /\ [][NextBox]_vars

\* ------------------------------------------------------------------------
\* camera_grab
\* ------------------------------------------------------------------------
MaxChannel == 1
NumSnapshots == 10

\* an image: its pixels, each a triple of channel values
Pixel == (0..MaxChannel) \X (0..MaxChannel) \X (0..MaxChannel)
Frames == { [pixels |-> <<px>>] : px \in Pixel }

\* a Python string
Str(s) == [str |-> s]
FileNames == {"laptop.jpeg"}
Missing == [missing |-> TRUE]

\* "if fallback_filename:" is false for None and for the empty string
Truthy(v) == IF v = None THEN FALSE ELSE v.str # ""

\* cv2.cvtColor that leaves the channel order alone
cvtColor_Unchanged(img) == img

\* cv2.cvtColor(img, cv2.COLOR_BGR2RGB): the channel order of every pixel
\* is reversed
cvtColor_BGR2RGB(img) ==
    [pixels |-> [k \in 1..Len(img.pixels) |->
                    <<img.pixels[k][3], img.pixels[k][2], img.pixels[k][1]>>]]

\* skimage.io.imread(filename)
imread(files, filename) ==
    IF files[filename.str] = Missing
    THEN [exc |-> "FileNotFoundError", filename |-> filename.str]
    ELSE [val |-> files[filename.str]]

\* what one camera.read() can do: a frame, no frame, or an error of the driver
ReadOutcomes ==
    { [val |-> <<TRUE, f>>] : f \in Frames }
        \cup { [val |-> <<FALSE, None>>], [exc |-> "cv2.error", in |-> "read"] }

\* what cv2.cvtColor can do on a frame
ConvertOutcomes(img) ==
    { [val |-> cvtColor_BGR2RGB(img)], [exc |-> "cv2.error", in |-> "cvtColor"] }

\* leaving the try block without running the finally clause on an exception
TryExit_NoFinally(r) == IF Raised(r) THEN "cam_exit" ELSE "cam_finally"

\* where control goes when the try block is left with outcome r: the finally
\* clause runs on normal completion and on an exception alike
TryExit(r) == "cam_finally"

InitCam ==
    /\ pc = "grab"
    /\ fallback_filename \in {None, Str("")} \cup { Str(f) : f \in FileNames }
    /\ disk \in [FileNames -> Frames \cup {Missing}]
    /\ camlog = <<>> /\ snap_i = 0 /\ snapshot_ok = None /\ image = None
    /\ captured = None /\ pending = None /\ grabRes = None
    /\ LabIdle /\ BatchIdle /\ GenIdle /\ NbIdle

\* camera = cv2.VideoCapture(camera_id)
CameraOpen ==
    /\ pc = "grab"
    /\ camlog' = Append(camlog, "open")
    /\ pc' = "cam_read"
    /\ UNCHANGED <<fallback_filename, disk, snap_i, snapshot_ok, image,
                   captured, pending, grabRes, labVars, batchVars, genVars, nbVars>>

\* the effect of one camera.read() with outcome r
ReadResult(r) ==
    IF Raised(r)
    THEN /\ pending' = r /\ pc' = TryExit(r)
         /\ UNCHANGED <<snap_i, snapshot_ok, image, captured>>
    ELSE /\ snapshot_ok' = r.val[1] /\ image' = r.val[2]
         /\ captured' = r.val[2]
         /\ snap_i' = snap_i + 1
         /\ pc' = IF snap_i + 1 = NumSnapshots THEN "cam_branch" ELSE "cam_read"
         /\ UNCHANGED pending

\* one iteration of "for i in range(10): snapshot_ok, image = camera.read()"
CameraRead ==
    /\ pc = "cam_read"
    /\ camlog' = Append(camlog, "read")
    /\ \E r \in ReadOutcomes : ReadResult(r)
    /\ UNCHANGED <<fallback_filename, disk, grabRes, labVars, batchVars, genVars, nbVars>>

\* the effect of "image = <call with outcome r>" as the last statement of
\* the try block
AssignImage(r) ==
    /\ IF Raised(r) THEN pending' = r /\ UNCHANGED image
                    ELSE image' = r.val /\ UNCHANGED pending
    /\ pc' = TryExit(r)

\* if snapshot_ok: image = cv2.cvtColor(image, cv2.COLOR_BGR2RGB)
CameraConvert ==
    /\ pc = "cam_branch"
    /\ snapshot_ok = TRUE
    /\ \E r \in ConvertOutcomes(image) : AssignImage(r)
    /\ UNCHANGED <<fallback_filename, disk, camlog, snap_i, snapshot_ok,
                   captured, grabRes, labVars, batchVars, genVars, nbVars>>

\* else: print the warning; if fallback_filename: image = imread(...)
CameraFallback ==
    /\ pc = "cam_branch"
    /\ snapshot_ok = FALSE
    /\ IF Truthy(fallback_filename)
       THEN AssignImage(imread(disk, fallback_filename))
       ELSE pc' = TryExit(None) /\ UNCHANGED <<image, pending>>
    /\ UNCHANGED <<fallback_filename, disk, camlog, snap_i, snapshot_ok,
                   captured, grabRes, labVars, batchVars, genVars, nbVars>>

\* finally: camera.release()
CameraRelease ==
    /\ pc = "cam_finally"
    /\ camlog' = Append(camlog, "release")
    /\ pc' = "cam_exit"
    /\ UNCHANGED <<fallback_filename, disk, snap_i, snapshot_ok, image,
                   captured, pending, grabRes, labVars, batchVars, genVars, nbVars>>

\* "return image", or the exception of the try block leaving the function
CameraReturn ==
    /\ pc = "cam_exit"
    /\ grabRes' = IF pending = None THEN [val |-> image] ELSE pending
    /\ pc' = "grab_done"
    /\ UNCHANGED <<fallback_filename, disk, camlog, snap_i, snapshot_ok,
                   image, captured, pending, labVars, batchVars, genVars, nbVars>>

NextCam ==
    \/ CameraOpen \/ CameraRead \/ CameraConvert \/ CameraFallback
    \/ CameraRelease \/ CameraReturn

SpecCam == InitCam /\ [][NextCam]_vars

\* ------------------------------------------------------------------------
\* predict_batch
\* ------------------------------------------------------------------------
MaxPaths == 2

\* image files: an image is known by its shape (height, width, channels)
PathNames == {"bumblebee.png", "other.png"}
ImgShapes == { <<1, 1, 3>>, <<2, 1, 3>> }
ImgFiles == [PathNames -> { [shape |-> sh] : sh \in ImgShapes } \cup {Missing}]

\* skimage.io.imread(im_path)
imread_path(files, im_path) ==
    IF files[im_path] = Missing
    THEN [exc |-> "FileNotFoundError", filename |-> im_path, raised_by |-> "imread"]
    ELSE [val |-> files[im_path]]

\* skimage.transform.resize(img, img_size, ...): the leading dimensions become
\* img_size, the channel dimension stays
resize(img, img_size) ==
    [shape |-> img_size \o SubSeq(img.shape, Len(img_size) + 1, Len(img.shape))]

\* the body of the loop over img_batch_path for an image that was read
LoadOne(img, img_size) == IF img_size = None THEN img ELSE resize(img, img_size)

\* the loop over img_batch_path from position k on: img_list, or the
\* exception of the first imread that fails
RECURSIVE LoadImages(_, _, _, _, _)
LoadNext(files, paths, img_size, k, img_list, r) ==
    IF Raised(r) THEN r
    ELSE LoadImages(files, paths, img_size, k + 1,
                    Append(img_list, LoadOne(r.val, img_size)))
LoadImages(files, paths, img_size, k, img_list) ==
    IF k > Len(paths) THEN [val |-> img_list]
    ELSE LoadNext(files, paths, img_size, k, img_list, imread_path(files, paths[k]))

\* np.stack(img_list, axis=0)
np_stack(img_list) ==
    IF img_list = <<>>
    THEN [exc |-> "ValueError", msg |-> "need at least one array to stack",
          raised_by |-> "np.stack"]
    ELSE IF \E k \in 2..Len(img_list) : img_list[k].shape # img_list[1].shape
    THEN [exc |-> "ValueError", msg |-> "all input arrays must have the same shape",
          raised_by |-> "np.stack"]
    ELSE [val |-> [shape |-> <<Len(img_list)>> \o img_list[1].shape]]

\* the exception predict_batch raises itself
SameShapesError ==
    [exc |-> "ValueError",
     msg |-> "when both img_size and crop_size are None, all images in image_paths must have the same shapes.",
     raised_by |-> "predict_batch"]

\* the stacking step with its try/except removed
TryStack_Uncaught(r) == r

\* try: img_batch = np.stack(...) except: raise ValueError(...), r being the
\* outcome of np.stack
TryStack(r) == IF Raised(r) THEN SameShapesError ELSE r

\* return model(preprocess_input(img_batch)).numpy()
Forward(r) == IF Raised(r) THEN r ELSE [val |-> [features_of |-> r.val.shape]]

AfterLoad(r) == IF Raised(r) THEN r ELSE Forward(TryStack(np_stack(r.val)))

predict_batch(files, img_batch_path, img_size) ==
    AfterLoad(LoadImages(files, img_batch_path, img_size, 1, <<>>))

InitBatch ==
    /\ pc = "predict"
    /\ batchArgs \in [files : ImgFiles,
                      img_batch_path : SeqUpTo(PathNames, MaxPaths),
                      img_size : {None, <<1000, 224>>}]
    /\ batchRes = None
    /\ LabIdle /\ CamIdle /\ GenIdle /\ NbIdle

\* a cell calling predict_batch(headless_conv, img_batch_path, img_size)
PredictBatchCall ==
    /\ pc = "predict"
    /\ batchRes' = predict_batch(batchArgs.files, batchArgs.img_batch_path,
                                 batchArgs.img_size)
    /\ pc' = "predict_done"
    /\ UNCHANGED <<batchArgs, labVars, camVars, genVars, nbVars>>

NextBatch == PredictBatchCall

SpecBatch == InitBatch /\ [][NextBatch]_vars

\* ------------------------------------------------------------------------
\* model.generate: the language model and beam search
\* ------------------------------------------------------------------------
MaxLength == 4
NumBeams == 2
no_repeat_ngram_size == 2

\* a fixed vocabulary; a next-token distribution gives every token a positive
\* weight, its probability being weight / Total
VocabSize == 3
Total == 20
Tokens == 1..VocabSize
Rows == { <<1, 10, 9>>, <<8, 6, 6>>, <<2, 9, 9>>, <<16, 2, 2>>, <<5, 12, 3>> }

\* the model's public contract: token-id sequence in, next-token distribution
\* out; here the distribution depends on the last token of the sequence
LMs == [Tokens -> Rows]
NextDist(table, seq) == table[seq[Len(seq)]]

\* the n-grams of seq
NGrams(seq, n) == { SubSeq(seq, j, j + n - 1) : j \in 1..(Len(seq) - n + 1) }

\* the exclusion rule that only looks at the n-gram seq starts with
Excluded_FirstOnly(seq, t, n) ==
    /\ n > 0
    /\ Len(seq) >= n
    /\ SubSeq(Append(seq, t), Len(seq) - n + 2, Len(seq) + 1) = SubSeq(seq, 1, n)

\* the repeated-n-gram exclusion rule: appending t to seq would recreate an
\* n-gram seq already holds (n = 0 turns the rule off)
Excluded(seq, t, n) ==
    /\ n > 0
    /\ Len(seq) >= n
    /\ SubSeq(Append(seq, t), Len(seq) - n + 2, Len(seq) + 1) \in NGrams(seq, n)

\* the continuations of hypothesis h with their cumulative weights; an
\* excluded continuation has probability zero and is no candidate
Continuations(table, h, n) ==
    { [ids |-> Append(h.ids, t), score |-> h.score * NextDist(table, h.ids)[t]] :
        t \in { u \in Tokens : ~Excluded(h.ids, u, n) } }

Candidates(table, hyps, n) == UNION { Continuations(table, h, n) : h \in hyps }

\* keeping the k least likely candidates
KeepTop_Least(cands, k) ==
    { K \in SUBSET cands :
        /\ Cardinality(K) = Min2(k, Cardinality(cands))
        /\ \A c \in K, d \in cands \ K : c.score <= d.score }

\* the ways of keeping the k most likely candidates (equally likely ones may
\* be kept in any way)
KeepTop(cands, k) ==
    { K \in SUBSET cands :
        /\ Cardinality(K) = Min2(k, Cardinality(cands))
        /\ \A c \in K, d \in cands \ K : c.score >= d.score }

\* the hypotheses with the overall highest probability
Best(hyps) == { h \in hyps : \A g \in hyps : h.score >= g.score }

\* the length all kept hypotheses have
BeamLen == Len((CHOOSE h \in beams : TRUE).ids)

InitBeam ==
    /\ pc = "beam"
    /\ lm \in LMs
    /\ input_ids \in { <<t>> : t \in Tokens }
    /\ genArgs \in [max_length : {MaxLength}, num_beams : {NumBeams},
                    no_repeat_ngram_size : {0, no_repeat_ngram_size}]
    /\ beams = { [ids |-> input_ids, score |-> 1] }
    /\ ids = <<>> /\ genOut = None
    /\ LabIdle /\ CamIdle /\ BatchIdle /\ NbIdle

\* one time step: extend every kept hypothesis, keep the num_beams most likely
BeamStep ==
    /\ pc = "beam"
    /\ BeamLen < genArgs.max_length
    /\ beams' \in KeepTop(Candidates(lm, beams, genArgs.no_repeat_ngram_size),
                          genArgs.num_beams)
    /\ UNCHANGED <<pc, lm, input_ids, genArgs, ids, genOut,
                   labVars, camVars, batchVars, nbVars>>

\* the output length is reached: return the most likely hypothesis
BeamReturn ==
    /\ pc = "beam"
    /\ BeamLen >= genArgs.max_length
    /\ \E h \in Best(beams) : genOut' = h.ids
    /\ pc' = "beam_done"
    /\ UNCHANGED <<lm, input_ids, genArgs, beams, ids,
                   labVars, camVars, batchVars, nbVars>>

NextBeam == BeamStep \/ BeamReturn

SpecBeam == InitBeam /\ [][NextBeam]_vars

\* ------------------------------------------------------------------------
\* model.generate: greedy search and sampling
\* ------------------------------------------------------------------------
\* the end marker is the last token of the vocabulary
eos_token_id == VocabSize

\* a probability threshold num / den
Prob(num, den) == [num |-> num, den |-> den]
TopPOff == Prob(1, 1)
TopPs == { Prob(1, 20), Prob(9, 20), Prob(92, 100), Prob(19, 20) }

\* the sum of the weights of the tokens 1..n that belong to S
RECURSIVE SumUpTo(_, _, _)
SumUpTo(row, S, n) ==
    IF n = 0 THEN 0
    ELSE SumUpTo(row, S, n - 1) + (IF n \in S THEN row[n] ELSE 0)
SumOver(row, S) == SumUpTo(row, S, Len(row))

\* greedy selection: the tokens of highest probability (which of several
\* equally likely ones the arg-max returns is not fixed)
ArgMaxTokens(row) ==
    { t \in DOMAIN row : \A u \in DOMAIN row : row[t] >= row[u] }

\* the Top-K filter that lets one token more through
TopKSets_OneMore(row, k) ==
    IF k = 0 THEN { DOMAIN row }
    ELSE { K \in SUBSET DOMAIN row :
             /\ Cardinality(K) = Min2(k + 1, Len(row))
             /\ \A t \in K, u \in (DOMAIN row) \ K : row[t] >= row[u] }

\* Top-K: the ways of restricting to the k highest-probability tokens
\* (k = 0 turns the filter off)
TopKSets(row, k) ==
    IF k = 0 THEN { DOMAIN row }
    ELSE { K \in SUBSET DOMAIN row :
             /\ Cardinality(K) = Min2(k, Len(row))
             /\ \A t \in K, u \in (DOMAIN row) \ K : row[t] >= row[u] }

\* the tokens of K sorted by ascending probability
DescOrders_Ascending(row, K) ==
    { o \in [1..Cardinality(K) -> K] :
        /\ \A i, j \in 1..Cardinality(K) : i < j => o[i] # o[j]
        /\ \A i, j \in 1..Cardinality(K) : i < j => row[o[i]] <= row[o[j]] }

\* the tokens of K sorted by descending probability, in every way
DescOrders(row, K) ==
    { o \in [1..Cardinality(K) -> K] :
        /\ \A i, j \in 1..Cardinality(K) : i < j => o[i] # o[j]
        /\ \A i, j \in 1..Cardinality(K) : i < j => row[o[i]] >= row[o[j]] }

\* the tokens of the first j positions of the order o
Prefix(o, j) == { o[i] : i \in 1..j }

\* the prefix whose cumulative probability reaches p
NucleusLen_Reaches(row, o, p) ==
    IF \E j \in 1..Len(o) :
           SumOver(row, Prefix(o, j)) * p.den >= p.num * SumOver(row, Prefix(o, Len(o)))
    THEN CHOOSE j \in 1..Len(o) :
           /\ SumOver(row, Prefix(o, j)) * p.den >= p.num * SumOver(row, Prefix(o, Len(o)))
           /\ \A i \in 1..(j - 1) :
                SumOver(row, Prefix(o, i)) * p.den < p.num * SumOver(row, Prefix(o, Len(o)))
    ELSE Len(o)

\* Top-p: the length of the smallest prefix of o whose cumulative probability
\* (within the tokens of o) exceeds p; all of o when none does
NucleusLen(row, o, p) ==
    IF \E j \in 1..Len(o) :
           SumOver(row, Prefix(o, j)) * p.den > p.num * SumOver(row, Prefix(o, Len(o)))
    THEN CHOOSE j \in 1..Len(o) :
           /\ SumOver(row, Prefix(o, j)) * p.den > p.num * SumOver(row, Prefix(o, Len(o)))
           /\ \A i \in 1..(j - 1) :
                SumOver(row, Prefix(o, i)) * p.den <= p.num * SumOver(row, Prefix(o, Len(o)))
    ELSE Len(o)

\* the nuclei of the tokens K for threshold p
NucleusSets(row, K, p) ==
    { Prefix(o, NucleusLen(row, o, p)) : o \in DescOrders(row, K) }

\* the sets of tokens left by Top-K followed by Top-p
SampleSets(row, top_k, top_p) ==
    UNION { NucleusSets(row, K, top_p) : K \in TopKSets(row, top_k) }

\* the probability mass redistributed among the tokens of S: token t has
\* probability num / den
Renormalized(row, S) ==
    [t \in DOMAIN row |-> [num |-> IF t \in S THEN row[t] ELSE 0,
                           den |-> SumOver(row, S)]]

\* the distributions the next token may be sampled from
SamplingDists(row, top_k, top_p) ==
    { Renormalized(row, S) : S \in SampleSets(row, top_k, top_p) }

\* the tokens that can be chosen next
NextTokens(row, args) ==
    IF args.do_sample
    THEN { t \in DOMAIN row :
             \E d \in SamplingDists(row, args.top_k, args.top_p) : d[t].num > 0 }
    ELSE ArgMaxTokens(row)

\* an end marker was produced
EosProduced(seq, context) ==
    Len(seq) > Len(context) /\ seq[Len(seq)] = eos_token_id

\* the stop condition that lets the sequence grow one token too long
StopNow_OneMore(seq, context, max_len) ==
    Len(seq) > max_len \/ EosProduced(seq, context)

\* the stop condition: fixed length or end marker
StopNow(seq, context, max_len) ==
    Len(seq) >= max_len \/ EosProduced(seq, context)

GenArgSets ==
    [max_length : {MaxLength}, do_sample : {FALSE}, top_k : {0}, top_p : {TopPOff}]
      \cup [max_length : {MaxLength}, do_sample : {TRUE}, top_k : {1, 2}, top_p : {TopPOff}]
      \cup [max_length : {MaxLength}, do_sample : {TRUE}, top_k : {0}, top_p : TopPs]
      \cup [max_length : {MaxLength}, do_sample : {TRUE}, top_k : {2}, top_p : {Prob(19, 20)}]

InitGen ==
    /\ pc = "gen"
    /\ lm \in LMs
    /\ input_ids \in { <<t>> : t \in Tokens }
    /\ genArgs \in GenArgSets
    /\ ids = input_ids
    /\ beams = {} /\ genOut = None
    /\ LabIdle /\ CamIdle /\ BatchIdle /\ NbIdle

\* one step of the loop: query the model, choose a token, append it
GenStep ==
    /\ pc = "gen"
    /\ ~StopNow(ids, input_ids, genArgs.max_length)
    /\ \E t \in NextTokens(NextDist(lm, ids), genArgs) : ids' = Append(ids, t)
    /\ UNCHANGED <<pc, lm, input_ids, genArgs, beams, genOut,
                   labVars, camVars, batchVars, nbVars>>

\* the stop condition holds: the sequence is returned
GenReturn ==
    /\ pc = "gen"
    /\ StopNow(ids, input_ids, genArgs.max_length)
    /\ genOut' = ids
    /\ pc' = "gen_done"
    /\ UNCHANGED <<lm, input_ids, genArgs, beams, ids,
                   labVars, camVars, batchVars, nbVars>>

NextGen == GenStep \/ GenReturn

SpecGen == InitGen /\ [][NextGen]_vars

\* the loop runs on: every iteration is followed by the next statement
SpecGenFair == SpecGen /\ WF_vars(NextGen)

\* ------------------------------------------------------------------------
\* Assignment 2: generate_text
\* ------------------------------------------------------------------------
IsStr(v) == "str" \in DOMAIN v

SeedTexts == { Str("hamlet"), Str("to be") }
\* SEQ_LENGTH as the notebook leaves it (None) or as a length chosen for it
SeqLengths == {None} \cup { [int |-> n] : n \in 1..MaxLength }

\* the body of generate_text is its docstring and "return None"
generate_text(model, tok, seed_text, max_sequence_len) == None

InitText ==
    /\ pc = "text"
    /\ textArgs \in [model : LMs, seed_text : SeedTexts,
                     max_sequence_len : SeqLengths]
    /\ textRes = None
    /\ OovIdle
    /\ NoiseIdle /\ EvalIdle /\ SetupIdle
    /\ LabIdle /\ CamIdle /\ BatchIdle /\ GenIdle

\* the cell generate_text(model, tokenizer, 'hamlet', SEQ_LENGTH)
GenerateTextCall ==
    /\ pc = "text"
    /\ textRes' = generate_text(textArgs.model, tokenizer, textArgs.seed_text,
                                textArgs.max_sequence_len)
    /\ pc' = "text_done"
    /\ UNCHANGED <<textArgs, oovVars, noiseVars, evalVars, setupVars,
                   labVars, camVars, batchVars, genVars>>

NextText == GenerateTextCall

SpecText == InitText /\ [][NextText]_vars

\* ------------------------------------------------------------------------
\* Assignment 2: dropping the examples whose target is the OOV token
\* ------------------------------------------------------------------------
MaxRows == 3

\* the windows of token ids (one token long here) and the fitted tokenizers,
\* of which only word_index[OOV_TOKEN] matters
Windows == { <<t>> : t \in Tokens }
Tokenizers == { [word_index |-> [OOV_TOKEN |-> k]] : k \in Tokens }

\* the comparison keeping the OOV targets instead of the others
NotEqual_Equal(arr, v) == [i \in 1..Len(arr) |-> arr[i] = v]

\* arr != v, element by element
NotEqual(arr, v) == [i \in 1..Len(arr) |-> arr[i] # v]

RECURSIVE BoolTake(_, _)
BoolTake(arr, mask) ==
    IF arr = <<>> THEN <<>>
    ELSE (IF Head(mask) THEN <<Head(arr)>> ELSE <<>>)
         \o BoolTake(Tail(arr), Tail(mask))

\* arr[mask] for a boolean mask over the first axis
BoolIndex(arr, mask) ==
    IF Len(mask) # Len(arr) THEN IndexError
    ELSE [val |-> BoolTake(arr, mask)]

ValueError == [exc |-> "ValueError"]

\* np.max(x) + 1, the number of classes when num_classes is None
InferredClasses(targets) ==
    1 + CHOOSE m \in { targets[i] : i \in 1..Len(targets) } :
            \A i \in 1..Len(targets) : targets[i] <= m

\* categorical[np.arange(batch_size), x] = 1 on zeros of num_classes columns:
\* a target that is not below num_classes is an index out of bounds
OneHotRows(targets, classes_n) ==
    IF \E i \in 1..Len(targets) : targets[i] >= classes_n
    THEN IndexError
    ELSE [val |-> [i \in 1..Len(targets) |->
                     [k \in 1..classes_n |->
                        IF k = targets[i] + 1 THEN FOfInt(1) ELSE FZero]]]

\* to_categorical(targets, num_classes): one row per target, 1.0 at the
\* position of the target and 0.0 elsewhere; without num_classes the
\* largest target gives it, and no target at all is a ValueError of np.max
to_categorical(targets, classes_n) ==
    IF classes_n = None
    THEN IF Len(targets) = 0 THEN ValueError
         ELSE OneHotRows(targets, InferredClasses(targets))
    ELSE OneHotRows(targets, classes_n.val)

\* test_size=0.2
test_size == FDivInts(1, 5)
\* ceil of a float that is not negative
FCeil(v) == IF FCmp(FOfInt(FTrunc(v)), v) < 0 THEN FTrunc(v) + 1 ELSE FTrunc(v)
\* n_test = ceil(test_size * n_samples)
NumTest(n_samples) == FCeil(FMulSmall(test_size, n_samples))

\* np.random.RandomState(42).permutation(n) for n = 1, 2, ...: positions
\* counted from 0
Permutation42 ==
    << <<0>>, <<1, 0>>, <<0, 1, 2>>, <<1, 3, 0, 2>>, <<1, 4, 2, 0, 3>>,
       <<0, 1, 5, 2, 4, 3>> >>

\* arr[ind] for a sequence of positions counted from 0
TakeRows(arr, ind) == [i \in 1..Len(ind) |-> arr[ind[i] + 1]]

\* the four arrays, the first n_test positions of the permutation being the
\* test rows and the others the training rows
SplitRows(Xs, ys, ind_train, ind_test) ==
    [val |-> [X_train |-> TakeRows(Xs, ind_train), X_val |-> TakeRows(Xs, ind_test),
              y_train |-> TakeRows(ys, ind_train), y_val |-> TakeRows(ys, ind_test)]]

\* train_test_split(X, y, test_size=0.2, random_state=42); no rows, or no
\* row left for training, is a ValueError
train_test_split(Xs, ys) ==
    IF Len(Xs) # Len(ys) \/ Len(Xs) = 0 \/ Len(Xs) - NumTest(Len(Xs)) = 0
    THEN ValueError
    ELSE SplitRows(Xs, ys,
                   SubSeq(Permutation42[Len(Xs)], NumTest(Len(Xs)) + 1, Len(Xs)),
                   SubSeq(Permutation42[Len(Xs)], 1, NumTest(Len(Xs))))

InitOov ==
    /\ pc = "oov"
    /\ tokenizer \in Tokenizers
    /\ VOCAB_SIZE \in {None, [val |-> VocabSize], [val |-> VocabSize + 1]}
    /\ X \in SeqUpTo(Windows, MaxRows)
    /\ y \in SeqUpTo(Tokens, MaxRows)
    /\ X_train = None /\ X_val = None /\ y_train = None /\ y_val = None
    /\ TextIdle /\ NoiseIdle /\ EvalIdle /\ SetupIdle
    /\ LabIdle /\ CamIdle /\ BatchIdle /\ GenIdle

\* mask = y != tokenizer.word_index[OOV_TOKEN]; X = X[mask]; y = y[mask].
\* A failing X[mask] ends the cell with X and y as they were.
OovDropWith(mask) ==
    IF Raised(BoolIndex(X, mask))
    THEN pc' = "oov_error" /\ UNCHANGED <<X, y>>
    ELSE /\ X' = BoolIndex(X, mask).val
         /\ y' = BoolIndex(y, mask).val
         /\ pc' = "oov_masked"

\* the first statements of the cell, up to the masking
OovDrop ==
    /\ pc = "oov"
    /\ OovDropWith(NotEqual(y, tokenizer.word_index.OOV_TOKEN))
    /\ UNCHANGED <<tokenizer, VOCAB_SIZE, X_train, X_val, y_train, y_val>>
    /\ UNCHANGED <<textVars, noiseVars, evalVars, setupVars,
                   labVars, camVars, batchVars, genVars>>

OneHotResult(r) ==
    IF Raised(r) THEN pc' = "oov_error" /\ UNCHANGED y
    ELSE pc' = "oov_encoded" /\ y' = r.val

\* the cell goes on: y = to_categorical(y, num_classes=VOCAB_SIZE)
OneHotTargets ==
    /\ pc = "oov_masked"
    /\ OneHotResult(to_categorical(y, VOCAB_SIZE))
    /\ UNCHANGED <<tokenizer, VOCAB_SIZE, X, X_train, X_val, y_train, y_val>>
    /\ UNCHANGED <<textVars, noiseVars, evalVars, setupVars,
                   labVars, camVars, batchVars, genVars>>

SplitResult(r) ==
    IF Raised(r)
    THEN pc' = "oov_error" /\ UNCHANGED <<X_train, X_val, y_train, y_val>>
    ELSE /\ pc' = "oov_done"
         /\ X_train' = r.val.X_train /\ X_val' = r.val.X_val
         /\ y_train' = r.val.y_train /\ y_val' = r.val.y_val

\* and ends: X_train, X_val, y_train, y_val = train_test_split(X, y, ...)
SplitData ==
    /\ pc = "oov_encoded"
    /\ SplitResult(train_test_split(X, y))
    /\ UNCHANGED <<tokenizer, VOCAB_SIZE, X, y>>
    /\ UNCHANGED <<textVars, noiseVars, evalVars, setupVars,
                   labVars, camVars, batchVars, genVars>>

NextOov == OovDrop \/ OneHotTargets \/ SplitData

SpecOov == InitOov /\ [][NextOov]_vars

\* ------------------------------------------------------------------------
\* Denoising autoencoder notebook: add_noise
\* ------------------------------------------------------------------------
MaxPixels == 2
MaxSigma == 2

\* the default noise_factor=0.1
noise_factor == FDivInts(1, 10)

\* pixel values of an image scaled to [0, 1]
PixelValues == { FZero, FDivInts(1, 2), FOfInt(1) }
ArrayShapes == { s \in (1..MaxPixels) \X (1..MaxPixels) : s[1] * s[2] <= MaxPixels }
Arrays(V) == UNION { [shape : {s}, data : [1..(s[1] * s[2]) -> V]] : s \in ArrayShapes }

\* draws of a normal variable of mean 0 and deviation scale: whole numbers
\* of deviations on either side of the mean
NormalDraws(scale) ==
    { FMulSmall(scale, k) : k \in 0..MaxSigma }
    \cup { FNeg(FMulSmall(scale, k)) : k \in 0..MaxSigma }
\* the outcomes of np.random.normal(loc=0.0, scale=scale, size=shape)
np_random_normal(scale, shape) ==
    [shape : {shape}, data : [1..(shape[1] * shape[2]) -> NormalDraws(scale)]]

\* clipping from above only
ClipValue_NoLower(v, lo, hi) ==
    IF FCmp(v, hi) > 0 THEN hi ELSE v

\* np.clip on one value: minimum(maximum(v, lo), hi)
ClipValue(v, lo, hi) ==
    IF FCmp(v, lo) < 0 THEN lo
    ELSE IF FCmp(v, hi) > 0 THEN hi ELSE v

np_clip(a, lo, hi) ==
    [shape |-> a.shape,
     data |-> [i \in DOMAIN a.data |-> ClipValue(a.data[i], lo, hi)]]

\* x + noise for arrays of one shape
ArrayAdd(a, b) ==
    [shape |-> a.shape,
     data |-> [i \in DOMAIN a.data |-> FAdd(a.data[i], b.data[i])]]

\* add_noise(x) given the outcome of its np.random.normal call
add_noise(x, noise) == np_clip(ArrayAdd(x, noise), FZero, FOfInt(1))

InitNoise ==
    /\ pc = "noise"
    /\ noiseArgs \in [x : Arrays(PixelValues), noise : {None}]
    /\ noiseRes = None
    /\ TextIdle /\ OovIdle /\ EvalIdle /\ SetupIdle
    /\ LabIdle /\ CamIdle /\ BatchIdle /\ GenIdle

\* x_train_noisy = add_noise(x_train)
AddNoiseCall ==
    /\ pc = "noise"
    /\ \E noise \in np_random_normal(noise_factor, noiseArgs.x.shape) :
        /\ noiseArgs' = [noiseArgs EXCEPT !.noise = noise]
        /\ noiseRes' = add_noise(noiseArgs.x, noise)
    /\ pc' = "noise_done"
    /\ UNCHANGED <<textVars, oovVars, evalVars, setupVars,
                   labVars, camVars, batchVars, genVars>>

NextNoise == AddNoiseCall

SpecNoise == InitNoise /\ [][NextNoise]_vars

\* ------------------------------------------------------------------------
\* Lab 5: display_prediction, compute_acc and the train / test split
\* ------------------------------------------------------------------------
MaxSamples == 3

\* two kinds of image: a representation stands for the kind, the annotation
\* of an image of that kind follows from it
ImageKinds == {1, MaxSize}
AnnotationOf(kind, fname) ==
    [size     |-> <<kind, kind>>,
     filename |-> fname,
     class    |-> IF kind = 1 THEN "dog" ELSE "cat",
     bbox     |-> <<0, 0, kind, kind>>]

\* what a model may output for one representation: class scores and a
\* centre-form box in the resized image, widths below zero and centres
\* outside the image included
PredCentres == { FOfInt(k * img_resize) : k \in 0..2 }
PredWidths == { FOfInt(k * img_resize) : k \in -1..1 }
PredOutputs ==
    [cls : {OneHot(0), OneHot(1)},
     box : { <<c, c, w, w>> : c \in PredCentres, w \in PredWidths }]

\* res = model(reprs[index][np.newaxis,]); interpret_output(res[0][0],
\* res[1][0], img_size=annotations[index]["size"]), index counted from 0
display_prediction(model, index, reps, anns) ==
    interpret_output(model[reps[index + 1]].cls, model[reps[index + 1]].box,
                     anns[index + 1].size)

\* beg, end of compute_acc
SplitBeg(is_train, n_samples) == IF is_train THEN 0 ELSE (9 * n_samples) \div 10
SplitEnd(is_train, n_samples) == IF is_train THEN (9 * n_samples) \div 10 ELSE n_samples

\* model.predict(reprs[beg:end]): one output per row of the slice; a slice
\* of no rows is a ValueError
Predict(model, reps, beg, end) ==
    IF end - beg <= 0 THEN ValueError
    ELSE [val |-> [i \in 1..(end - beg) |-> model[reps[beg + i]]]]

\* the loop over enumerate(zip(res[0], res[1])): index, counted from 0 within
\* the slice, selects annotations[index]
ComputeOutputs(res, anns) ==
    [i \in 1..Len(res) |-> interpret_output(res[i].cls, res[i].box, anns[i].size)]

\* compute_acc from the outcome of model.predict on: the outputs list and
\* what accuracy_and_iou makes of it, or the exception of predict
ComputeAccFrom(res, beg, end, anns) ==
    IF Raised(res) THEN [raised |-> TRUE, result |-> res]
    ELSE [raised  |-> FALSE,
          outputs |-> ComputeOutputs(res.val, anns),
          result  |-> accuracy_and_iou(ComputeOutputs(res.val, anns),
                                       SubSeq(anns, beg + 1, end), FHalf)]

compute_acc(model, is_train, reps, anns) ==
    ComputeAccFrom(Predict(model, reps, SplitBeg(is_train, Len(anns)),
                           SplitEnd(is_train, Len(anns))),
                   SplitBeg(is_train, Len(anns)), SplitEnd(is_train, Len(anns)),
                   anns)

InitEval ==
    /\ pc = "display"
    /\ reprs \in UNION { [1..n -> ImageKinds] : n \in 1..MaxSamples }
    /\ annotations = [i \in 1..Len(reprs) |-> AnnotationOf(reprs[i], i)]
    /\ bad_model \in [ImageKinds -> PredOutputs]
    /\ train = None /\ outputs = <<>> /\ evalRes = None
    /\ test_num = None /\ train_num = None
    /\ nread = 0 /\ lastfile = None
    /\ classes = <<>> /\ boxes = <<>> /\ interp = None
    /\ boxA = None /\ boxB = None /\ iouRes = None
    /\ preds = <<>> /\ trues = <<>> /\ accRes = None
    /\ TextIdle /\ OovIdle /\ NoiseIdle /\ SetupIdle
    /\ CamIdle /\ BatchIdle /\ GenIdle

\* a cell display_prediction(model, index)
DisplayPrediction ==
    /\ pc = "display"
    /\ \E index \in 0..(Len(annotations) - 1) :
        interp' = [idx |-> index + 1,
                   out |-> display_prediction(bad_model, index, reprs, annotations)]
    /\ pc' = "acc_cell"
    /\ UNCHANGED <<boxA, boxB, iouRes, preds, trues, accRes,
                   nread, lastfile, annotations, classes, boxes>>
    /\ UNCHANGED <<evalVars, textVars, oovVars, noiseVars, setupVars,
                   camVars, batchVars, genVars>>

\* one call of compute_acc: outputs is assigned once predict has returned;
\* an exception ends the cell, otherwise the cell goes on at next_pc
ComputeAccDone(r, next_pc) ==
    /\ evalRes' = r.result
    /\ outputs' = (IF r.raised THEN outputs ELSE r.outputs)
    /\ pc' = (IF Raised(r.result) THEN "split" ELSE next_pc)

\* the cell's first statement: compute_acc(bad_model, train=True)
ComputeAccTrain ==
    /\ pc = "acc_cell"
    /\ train' = [val |-> TRUE]
    /\ ComputeAccDone(compute_acc(bad_model, TRUE, reprs, annotations), "acc_test")
    /\ UNCHANGED <<reprs, bad_model, test_num, train_num>>
    /\ UNCHANGED <<labVars, textVars, oovVars, noiseVars, setupVars,
                   camVars, batchVars, genVars>>

\* and its second: compute_acc(bad_model, train=False)
ComputeAccTest ==
    /\ pc = "acc_test"
    /\ train' = [val |-> FALSE]
    /\ ComputeAccDone(compute_acc(bad_model, FALSE, reprs, annotations), "split")
    /\ UNCHANGED <<reprs, bad_model, test_num, train_num>>
    /\ UNCHANGED <<labVars, textVars, oovVars, noiseVars, setupVars,
                   camVars, batchVars, genVars>>

\* test_num = reprs.shape[0] // 10; train_num = reprs.shape[0] - test_num
SplitCell ==
    /\ pc = "split"
    /\ test_num' = Len(reprs) \div 10
    /\ train_num' = Len(reprs) - (Len(reprs) \div 10)
    /\ pc' = "eval_done"
    /\ UNCHANGED <<reprs, bad_model, train, outputs, evalRes>>
    /\ UNCHANGED <<labVars, textVars, oovVars, noiseVars, setupVars,
                   camVars, batchVars, genVars>>

NextEval == DisplayPrediction \/ ComputeAccTrain \/ ComputeAccTest \/ SplitCell

SpecEval == InitEval /\ [][NextEval]_vars

\* ------------------------------------------------------------------------
\* Lab 5: the dataset setup cell
\* ------------------------------------------------------------------------
MaxRuns == 3

URL_VOC == "http://host.robots.ox.ac.uk/pascal/VOC/voc2007/VOCtrainval_06-Nov-2007.tar"
FILE_VOC == "VOCtrainval_06-Nov-2007.tar"
FOLDER_VOC == "VOCdevkit"
URL_REPRESENTATIONS == "https://github.com/m2dsupsdlclass/lectures-labs/releases/download/0.2/voc_representations.h5"
FILE_REPRESENTATIONS == "voc_representations.h5"

\* what is found under a name: nothing, the whole file or folder, or a part
\* of it (a download or an extraction that was cut short)
Contents == {"absent", "whole", "partial"}
exists(files, name) == files[name] # "absent"

\* urlretrieve: the file arrives; or the response carries no Content-Length
\* and stops early, and the call returns with a part of the file written; or
\* the call raises with a part of the file or with nothing written
RetrieveOutcomes == {"ok", "ok_partial", "raise_partial", "raise_nothing"}
\* tarfile.open / extractall / close on an archive of the given content: a
\* whole archive is extracted unless the extraction is cut short; a cut-short
\* archive is rejected, or extracted up to where it ends, with or without an
\* error at its end, and it is extracted whole when only the zero blocks
\* after its last member are cut (the end of the file is taken for the end
\* of the archive)
ExtractOutcomes(archive) ==
    IF archive = "whole" THEN {"ok", "raise_partial"}
    ELSE {"ok", "raise_nothing", "raise_partial", "ok_partial"}

\* if not op.exists(name): urlretrieve(url, './' + name)
Retrieve(st, url, name, outcome) ==
    IF st.raised \/ exists(st.fs, name) THEN st
    ELSE [fs |-> [st.fs EXCEPT ![name] =
                     IF outcome = "ok" THEN "whole"
                     ELSE IF outcome \in {"ok_partial", "raise_partial"} THEN "partial"
                     ELSE "absent"],
          fetched |-> Append(st.fetched, url),
          extracted |-> st.extracted,
          raised |-> outcome \notin {"ok", "ok_partial"}]

\* the extraction done whether or not the folder is there
Extract_Always(st, outcome) ==
    IF st.raised THEN st
    ELSE [fs |-> [st.fs EXCEPT ![FOLDER_VOC] =
                     IF outcome = "ok" THEN "whole"
                     ELSE IF outcome = "raise_nothing" THEN @
                     ELSE "partial"],
          fetched |-> st.fetched,
          extracted |-> st.extracted + (IF outcome = "raise_nothing" THEN 0 ELSE 1),
          raised |-> outcome \notin {"ok", "ok_partial"}]

\* if not op.exists(FOLDER_VOC): tarfile.open(FILE_VOC), extractall(), close()
Extract(st, outcome) ==
    IF st.raised \/ exists(st.fs, FOLDER_VOC) THEN st
    ELSE [fs |-> [st.fs EXCEPT ![FOLDER_VOC] =
                     IF outcome = "ok" THEN "whole"
                     ELSE IF outcome = "raise_nothing" THEN @
                     ELSE "partial"],
          fetched |-> st.fetched,
          extracted |-> st.extracted + (IF outcome = "raise_nothing" THEN 0 ELSE 1),
          raised |-> outcome \notin {"ok", "ok_partial"}]

\* the three statements of the cell in order
SetupCell(st, o_voc, o_tar, o_repr) ==
    Retrieve(Extract(Retrieve(st, URL_VOC, FILE_VOC, o_voc), o_tar),
             URL_REPRESENTATIONS, FILE_REPRESENTATIONS, o_repr)

InitSetup ==
    /\ pc = "setup"
    /\ fs \in [{FILE_VOC, FOLDER_VOC, FILE_REPRESENTATIONS} -> Contents]
    /\ fetched = <<>> /\ extracted = 0 /\ cellRun = <<>>
    /\ TextIdle /\ OovIdle /\ NoiseIdle /\ EvalIdle
    /\ LabIdle /\ CamIdle /\ BatchIdle /\ GenIdle

RunResult(st) ==
    /\ fs' = st.fs
    /\ fetched' = st.fetched
    /\ extracted' = st.extracted
    /\ cellRun' = Append(cellRun, IF st.raised THEN "raised" ELSE "ok")

\* one run of the cell
RunSetupCell ==
    /\ pc = "setup"
    /\ Len(cellRun) < MaxRuns
    /\ \E o_voc, o_repr \in RetrieveOutcomes,
          o_tar \in {"ok", "ok_partial", "raise_partial", "raise_nothing"} :
        /\ o_tar \in ExtractOutcomes(
                        Retrieve([fs |-> fs, fetched |-> fetched,
                                  extracted |-> extracted, raised |-> FALSE],
                                 URL_VOC, FILE_VOC, o_voc).fs[FILE_VOC])
        /\ RunResult(SetupCell([fs |-> fs, fetched |-> fetched,
                                extracted |-> extracted, raised |-> FALSE],
                               o_voc, o_tar, o_repr))
    /\ UNCHANGED <<pc, textVars, oovVars, noiseVars, evalVars,
                   labVars, camVars, batchVars, genVars>>

NextSetup == RunSetupCell

SpecSetup == InitSetup /\ [][NextSetup]_vars

\* ------------------------------------------------------------------------
\* Properties of iou (checked under SpecIou)
\* ------------------------------------------------------------------------
Ordered(b)  == b[1] <= b[3] /\ b[2] <= b[4]
Positive(b) == b[1] < b[3] /\ b[2] < b[4]
Area(b)     == (b[3] - b[1]) * (b[4] - b[2])

\* unit cells of the pixel grid covered by a box with integer corners
Cells(b) == (b[1]..(b[3] - 1)) \X (b[2]..(b[4] - 1))
\* no overlap of positive area (boxes that only touch are disjoint)
Disjoint(a, b) == Cells(a) \cap Cells(b) = {}

FOne == FOfInt(1)

\* x rounds to c / 100 at two decimals
RoundsTo(x, c) == FCmpRat(x, 2 * c - 1, 200) > 0 /\ FCmpRat(x, 2 * c + 1, 200) < 0

IouDone == pc = "iou_done"

\* C1 as stated: for every box A with ordered corners, iou(A, A) returns 1.0.
C1_IdenticalAnyBox ==
    (IouDone /\ boxA = boxB /\ Ordered(boxA)) => iouRes = [val |-> FOne]

\* C1 (amended): for every box A of positive area (x_min < x_max and
\* y_min < y_max), iou(A, A) returns 1.0.
C1_IdenticalPositiveBox ==
    (IouDone /\ boxA = boxB /\ Positive(boxA)) => iouRes = [val |-> FOne]

C1_Witness ==
    IouDone /\ boxA = <<47, 35, 147, 101>> /\ boxB = boxA /\ iouRes = [val |-> FOne]

\* C2 as stated: for every pair of disjoint boxes with ordered corners (boxes
\* that only touch included), iou returns 0.0.
C2_DisjointAnyBoxes ==
    (IouDone /\ Ordered(boxA) /\ Ordered(boxB) /\ Disjoint(boxA, boxB))
        => iouRes = [val |-> FZero]

\* C2 (amended): for every pair of disjoint boxes with ordered corners of which
\* at least one has positive area, iou returns 0.0.
C2_DisjointOnePositive ==
    (IouDone /\ Ordered(boxA) /\ Ordered(boxB) /\ Disjoint(boxA, boxB)
        /\ (Positive(boxA) \/ Positive(boxB)))
        => iouRes = [val |-> FZero]

C2_Witness ==
    IouDone /\ boxA = <<47, 35, 147, 101>> /\ boxB = <<1, 124, 496, 235>>
        /\ Disjoint(boxA, boxB) /\ iouRes = [val |-> FZero]

\* C3: iou is symmetric: iou(A, B) and iou(B, A) have the same outcome, the
\* same value or both a division by zero, for all boxes A and B.
C3_Symmetric == IouDone => iouRes = iou(boxB, boxA)

C3_Witness ==
    IouDone /\ boxA # boxB /\ Returned(iouRes) /\ ~IsZero(iouRes.val)
        /\ iouRes # [val |-> FOne] /\ iouRes = iou(boxB, boxA)

\* C4 as stated: iou([47,35,147,101], [49,36,145,100]) rounds to 0.89.
C4_NestedIs089 ==
    (IouDone /\ boxA = <<47, 35, 147, 101>> /\ boxB = <<49, 36, 145, 100>>)
        => (Returned(iouRes) /\ RoundsTo(iouRes.val, 89))

\* C4 (amended): iou([47,35,147,101], [49,36,145,100]) rounds to 0.93 at two
\* decimals (intersection 6144, union 6600).
C4_NestedIs093 ==
    (IouDone /\ boxA = <<47, 35, 147, 101>> /\ boxB = <<49, 36, 145, 100>>)
        => (Returned(iouRes) /\ RoundsTo(iouRes.val, 93))

C4_Witness ==
    IouDone /\ boxA = <<47, 35, 147, 101>> /\ boxB = <<49, 36, 145, 100>>
        /\ Returned(iouRes) /\ Cells(boxB) \subseteq Cells(boxA)

\* C5: for boxes with ordered corners the division in iou fails exactly when
\* both boxes have zero area; in every other case iou returns a value.
C5_ZeroDivisorIffBothEmpty ==
    (IouDone /\ Ordered(boxA) /\ Ordered(boxB))
        => /\ Raised(iouRes) <=> (Area(boxA) = 0 /\ Area(boxB) = 0)
           /\ ~Raised(iouRes) => Returned(iouRes)

C5_Witness ==
    IouDone /\ Ordered(boxA) /\ Ordered(boxB) /\ boxA # boxB
        /\ Area(boxA) = 0 /\ Area(boxB) = 0 /\ iouRes = ZeroDivisionError

\* ------------------------------------------------------------------------
\* Properties of the box transform (checked under SpecBox)
\* ------------------------------------------------------------------------
\* ordered corners lying inside the image
ValidBox(b, size) ==
    /\ 0 <= b[1] /\ b[1] <= b[3] /\ b[3] <= size[1]
    /\ 0 <= b[2] /\ b[2] <= b[4] /\ b[4] <= size[2]

Checked == pc = "checked"

\* C6: round trip: for every valid box, tensorize_ground_truth followed by
\* interpret_output with the same image size returns the original corner-form
\* box exactly.
C6_RoundTrip ==
    (Checked /\ ValidBox(annotations[interp.idx].bbox, annotations[interp.idx].size))
        => interp.out.bbox = annotations[interp.idx].bbox

\* other values of one axis, to compare against
AltSides == {1, MaxSize}
AltCorners == { <<0, MaxSize>>, <<MaxSize, 0>> }

\* v is p / q up to 1 / (1000 * q), for naturals p and q > 0
Near(v, p, q) ==
    /\ FCmpRat(v, 1000 * p + 1, 1000 * q) < 0
    /\ (p = 0 \/ FCmpRat(v, 1000 * p - 1, 1000 * q) > 0)

\* C7 for tensorize_ground_truth: cx and w do not change when the image height
\* and the y corners change, cy and h do not change when the image width and
\* the x corners change, and for ordered corners w is (x_max - x_min) * 224 /
\* width and h is (y_max - y_min) * 224 / height.
TensorizeAxes(a, t) ==
    /\ \A side \in AltSides, c \in AltCorners :
         LET ty == TensorizeBox(<<a.bbox[1], c[1], a.bbox[3], c[2]>>, <<a.size[1], side>>)
             tx == TensorizeBox(<<c[1], a.bbox[2], c[2], a.bbox[4]>>, <<side, a.size[2]>>)
         IN  ty[1] = t[1] /\ ty[3] = t[3] /\ tx[2] = t[2] /\ tx[4] = t[4]
    /\ Ordered(a.bbox) =>
         /\ Near(t[3], (a.bbox[3] - a.bbox[1]) * img_resize, a.size[1])
         /\ Near(t[4], (a.bbox[4] - a.bbox[2]) * img_resize, a.size[2])

\* C7 for interpret_output: x_min and x_max do not change when the image
\* height, cy and h change, y_min and y_max do not change when the image width,
\* cx and w change.
InterpretAxes(a, t, out) ==
    \A side \in AltSides, c \in AltCorners :
        LET oy == InterpretBox(<<t[1], FOfInt(c[1]), t[3], FOfInt(c[2])>>, <<a.size[1], side>>)
            ox == InterpretBox(<<FOfInt(c[1]), t[2], FOfInt(c[2]), t[4]>>, <<side, a.size[2]>>)
        IN  oy[1] = out[1] /\ oy[3] = out[3] /\ ox[2] = out[2] /\ ox[4] = out[4]

\* C7: tensorize_ground_truth and interpret_output scale each axis on its own:
\* x values by the ratio of 224 and the image width only, y values by the
\* ratio of 224 and the image height only.
C7_AxesIndependent ==
    Checked =>
        /\ TensorizeAxes(annotations[interp.idx], boxes[interp.idx])
        /\ InterpretAxes(annotations[interp.idx], boxes[interp.idx], interp.out.bbox)

C7_Witness ==
    /\ Checked
    /\ annotations[interp.idx].size[1] # annotations[interp.idx].size[2]
    /\ Positive(annotations[interp.idx].bbox)
    /\ ValidBox(annotations[interp.idx].bbox, annotations[interp.idx].size)
    /\ boxes[interp.idx][3] # boxes[interp.idx][4]
    /\ interp.out.bbox = annotations[interp.idx].bbox

\* ------------------------------------------------------------------------
\* Properties of the annotation loading (checked under Spec)
\* ------------------------------------------------------------------------
Last(seq) == seq[Len(seq)]

\* the last loop iteration appended an entry, taken from lastfile
JustAppended ==
    /\ pc = "load" /\ nread > 0 /\ annotations # <<>>
    /\ Last(annotations).filename = nread

Corners(obj) == <<obj.xmin, obj.ymin, obj.xmax, obj.ymax>>

\* C8 as stated: every bounding-box record of annotations has ordered corners,
\* whatever the annotation files hold.
C8_AlwaysOrdered ==
    \A i \in 1..Len(annotations) : Ordered(annotations[i].bbox)

\* C8 (amended): every iteration of the loading loop leaves the records of
\* annotations as they are and appends at most one record, whose bbox is the
\* four corner values of an object of the parsed file, unchanged and in the
\* order xmin, ymin, xmax, ymax; so a record has ordered corners exactly when
\* the file gives that object ordered corners.
C8_CornersAsInFile ==
    [][ pc' = "load" =>
          /\ Len(annotations') \in {Len(annotations), Len(annotations) + 1}
          /\ SubSeq(annotations', 1, Len(annotations)) = annotations
          /\ Len(annotations') = Len(annotations) + 1 =>
               \E k \in 1..Len(lastfile'.objects) :
                   /\ Last(annotations').bbox = Corners(lastfile'.objects[k])
                   /\ Last(annotations').class = lastfile'.objects[k].name
                   /\ Ordered(Last(annotations').bbox)
                        <=> (/\ lastfile'.objects[k].xmin <= lastfile'.objects[k].xmax
                             /\ lastfile'.objects[k].ymin <= lastfile'.objects[k].ymax)
      ]_vars

C8_Witness ==
    /\ JustAppended
    /\ Len(annotations) = 2
    /\ Ordered(annotations[1].bbox)
    /\ ~Ordered(annotations[2].bbox)
    /\ \E k \in 1..Len(lastfile.objects) :
           annotations[2].bbox = Corners(lastfile.objects[k])

\* C9: every entry of annotations comes from an image that contains a single
\* object, of one of the five classes; the entry carries that object's class
\* and bbox and has no objects key.
C9_SingleObjectImage ==
    JustAppended =>
        /\ Len(lastfile.objects) = 1
        /\ lastfile.objects[1].name \in FilterSet
        /\ Last(annotations).class = lastfile.objects[1].name
        /\ Last(annotations).bbox = Corners(lastfile.objects[1])
        /\ "objects" \notin DOMAIN Last(annotations)

\* ------------------------------------------------------------------------
\* Properties of accuracy_and_iou (checked under SpecAcc)
\* ------------------------------------------------------------------------
AccDone == pc = "acc_done"

\* the pairs zip(preds, trues) goes through
Pairs == 1..Min2(Len(preds), Len(trues))
ClassMatch(i) == preds[i].class = trues[i].class
PairIou(i) == iou(preds[i].bbox, trues[i].bbox)
\* the IoU of pair i is strictly above one half
IsPositive(i) ==
    ClassMatch(i) /\ Returned(PairIou(i)) /\ FCmpRat(PairIou(i).val, 1, 2) > 0

RECURSIVE SumIou(_)
SumIou(n) == IF n = 0 THEN FZero ELSE FAdd(SumIou(n - 1), PairIou(n).val)

\* C10: accuracy_and_iou counts a pair as positive exactly when the classes are
\* equal and the IoU is strictly above the threshold, and returns (class
\* matches / total, sum of IoU / total, positives / total), total being the
\* number of predictions; it fails with a division by zero exactly when there
\* is no prediction or iou fails on a pair.
C10_AccuracyTriple ==
    AccDone =>
        /\ Raised(accRes) <=> (preds = <<>> \/ \E i \in Pairs : Raised(PairIou(i)))
        /\ ~Raised(accRes) =>
             /\ Returned(accRes)
             /\ accRes.val[1] = FDivInts(Cardinality({i \in Pairs : ClassMatch(i)}), Len(preds))
             /\ accRes.val[2] = FDivSmall(SumIou(Cardinality(Pairs)), Len(preds))
             /\ accRes.val[3] = FDivInts(Cardinality({i \in Pairs : IsPositive(i)}), Len(preds))

\* every prediction has the class of its ground truth; one pair has an IoU of
\* exactly one half (not positive), one a larger IoU (positive)
C10_Witness ==
    /\ AccDone /\ Returned(accRes)
    /\ \E i \in Pairs : ClassMatch(i) /\ PairIou(i) = [val |-> FHalf] /\ ~IsPositive(i)
    /\ \E i \in Pairs : IsPositive(i)
    /\ accRes.val[1] = FOne
    /\ accRes.val[3] = FHalf

\* ------------------------------------------------------------------------
\* Properties of the class encoding (checked under Spec)
\* ------------------------------------------------------------------------
Tensorized == pc \in {"tensorized", "checked"}

\* the row holds 1.0 at the position of name in filters and 0.0 elsewhere
IsOneHotOf(row, name) ==
    /\ Len(row) = Len(filters)
    /\ \A k \in 1..Len(filters) :
         row[k] = (IF filters[k] = name THEN FOne ELSE FZero)

\* C11: for every annotation the class row built by tensorize_ground_truth
\* has exactly one entry equal to 1.0, at labels2idx[class], and zeros
\* elsewhere, and interpret_output on that row returns the annotation's
\* original class name with confidence 1.0.
C11_OneHotReverts ==
    /\ Tensorized =>
          \A i \in 1..Len(annotations) :
              /\ IsOneHotOf(classes[i], annotations[i].class)
              /\ Cardinality({k \in 1..Len(classes[i]) : classes[i][k] = FOne}) = 1
    /\ Checked =>
          /\ interp.out.class = annotations[interp.idx].class
          /\ interp.out.confidence = FOne

\* a checked annotation whose class is not the first of filters
C11_Witness ==
    /\ Checked
    /\ annotations[interp.idx].class = "aeroplane"
    /\ interp.out.class = "aeroplane"
    /\ Len(annotations) = 2 /\ annotations[1].class # annotations[2].class

\* ------------------------------------------------------------------------
\* Properties of camera_grab (checked under SpecCam)
\* ------------------------------------------------------------------------
GrabDone == pc = "grab_done"

\* img with the first and third channel of every pixel exchanged
IsChannelSwapOf(out, img) ==
    /\ Len(out.pixels) = Len(img.pixels)
    /\ \A k \in 1..Len(img.pixels) :
         /\ out.pixels[k][1] = img.pixels[k][3]
         /\ out.pixels[k][2] = img.pixels[k][2]
         /\ out.pixels[k][3] = img.pixels[k][1]

\* C12: whenever camera_grab returns after a failed capture (the last
\* camera.read() reported no frame) and a fallback_filename is given (one
\* that "if fallback_filename" accepts), the value returned is the image
\* read from that file; whenever it returns after a successful capture, the
\* value returned is the captured frame converted from BGR to RGB.
C12_FallbackOrConverted ==
    (GrabDone /\ Returned(grabRes)) =>
        /\ (snapshot_ok = FALSE /\ Truthy(fallback_filename)) =>
               grabRes.val = disk[fallback_filename.str]
        /\ snapshot_ok = TRUE =>
               IsChannelSwapOf(grabRes.val, captured)

\* a fallback image was returned, and it differs from what its BGR reading
\* would be
C12_Witness ==
    /\ GrabDone /\ Returned(grabRes)
    /\ snapshot_ok = FALSE /\ Truthy(fallback_filename)
    /\ grabRes.val \in Frames
    /\ grabRes.val # cvtColor_BGR2RGB(grabRes.val)

\* a frame whose channel order matters was captured and returned
C12_WitnessCaptured ==
    /\ GrabDone /\ Returned(grabRes)
    /\ snapshot_ok = TRUE
    /\ captured.pixels[1][1] # captured.pixels[1][3]

\* the positions of camlog that hold operation op
LogPositions(op) == {k \in 1..Len(camlog) : camlog[k] = op}

\* C13: in camera_grab the camera device is acquired once and released
\* exactly once on every path out of the function (return after a successful
\* capture, after a failed capture with or without fallback, and an exception
\* raised by a read, the colour conversion or the fallback read), and no
\* operation on the device follows its release.
C13_AcquiredOnceReleasedOnce ==
    /\ LogPositions("open") \subseteq {1}
    /\ LogPositions("release") \subseteq {Len(camlog)}
    /\ GrabDone =>
          /\ Len(camlog) >= 2
          /\ LogPositions("open") = {1}
          /\ LogPositions("release") = {Len(camlog)}

\* the fallback read raised after ten snapshots and the exception left the
\* function with the device released
C13_Witness ==
    /\ GrabDone /\ Raised(grabRes)
    /\ grabRes.exc = "FileNotFoundError"
    /\ Len(camlog) = NumSnapshots + 2
    /\ camlog[Len(camlog)] = "release"

\* ------------------------------------------------------------------------
\* Failures of predict_batch (checked under SpecBatch)
\* ------------------------------------------------------------------------
BatchDone == pc = "predict_done"

\* positions of img_batch_path whose file does not exist
MissingAt == {k \in 1..Len(batchArgs.img_batch_path) :
                 batchArgs.files[batchArgs.img_batch_path[k]] = Missing}

\* the shapes of the images as they reach np.stack
StackedShapes ==
    { IF batchArgs.img_size = None
      THEN batchArgs.files[batchArgs.img_batch_path[k]].shape
      ELSE <<batchArgs.img_size[1], batchArgs.img_size[2],
             batchArgs.files[batchArgs.img_batch_path[k]].shape[3]>> :
        k \in 1..Len(batchArgs.img_batch_path) }

\* the failure of an underlying library that the call runs into, if any
LibraryFailure ==
    IF MissingAt # {}
    THEN [exc |-> "FileNotFoundError",
          filename |-> batchArgs.img_batch_path[CHOOSE k \in MissingAt :
                                                   \A j \in MissingAt : k <= j],
          raised_by |-> "imread"]
    ELSE IF Cardinality(StackedShapes) = 0
    THEN [exc |-> "ValueError", msg |-> "need at least one array to stack",
          raised_by |-> "np.stack"]
    ELSE IF Cardinality(StackedShapes) > 1
    THEN [exc |-> "ValueError", msg |-> "all input arrays must have the same shape",
          raised_by |-> "np.stack"]
    ELSE None

\* C14: no failure is caught or translated by predict_batch: every failure
\* (missing file, images of differing shapes) leaves the call as the
\* exception the underlying library raised, unchanged.
C14_AllFailuresPropagateUnchanged ==
    BatchDone =>
        IF LibraryFailure = None THEN Returned(batchRes)
        ELSE batchRes = LibraryFailure

\* C14, amended: a failure of imread leaves predict_batch unchanged, while
\* any failure of np.stack (images of differing shapes, no image at all) is
\* caught and replaced by the ValueError predict_batch raises itself; there
\* is no failure without a failing library call.
C14_OnlyStackFailureTranslated ==
    BatchDone =>
        IF LibraryFailure = None THEN Returned(batchRes)
        ELSE IF LibraryFailure.raised_by = "np.stack"
        THEN /\ batchRes.exc = "ValueError"
             /\ batchRes.raised_by = "predict_batch"
             /\ batchRes.msg # LibraryFailure.msg
        ELSE batchRes = LibraryFailure

\* two existing images of differing shapes were passed without img_size
C14_Witness ==
    /\ BatchDone
    /\ MissingAt = {}
    /\ batchArgs.img_size = None
    /\ Cardinality(StackedShapes) = 2
    /\ Raised(batchRes)

\* a missing file after an existing one
C14_WitnessMissing ==
    /\ BatchDone
    /\ MissingAt = {2}
    /\ batchRes.exc = "FileNotFoundError"

\* ------------------------------------------------------------------------
\* Properties of beam search (checked under SpecBeam)
\* ------------------------------------------------------------------------
BeamDone == pc = "beam_done"

\* some 2-gram occurs at two positions of seq
HasRepeated2Gram(seq) ==
    \E j, k \in 1..(Len(seq) - 1) :
        j < k /\ seq[j] = seq[k] /\ seq[j + 1] = seq[k + 1]

\* the tokens with the highest probability after seq
MostLikely(seq) ==
    { t \in Tokens : \A u \in Tokens : lm[seq[Len(seq)]][t] >= lm[seq[Len(seq)]][u] }

\* C15: beam search with no_repeat_ngram_size=2 never produces a sequence in
\* which the same 2-gram appears twice: at every generation step no kept
\* hypothesis holds a repeated 2-gram (a continuation that would recreate a
\* seen 2-gram is never chosen), hypotheses are always left to choose from,
\* and the returned sequence has no repeated 2-gram.
C15_NoRepeated2Gram ==
    (pc \in {"beam", "beam_done"} /\ genArgs.no_repeat_ngram_size = 2) =>
        /\ beams # {}
        /\ \A h \in beams : ~HasRepeated2Gram(h.ids)
        /\ BeamDone => ~HasRepeated2Gram(genOut)

\* a returned sequence in which, at some step, every most likely token was
\* excluded because it would have recreated a 2-gram
C15_Witness ==
    /\ BeamDone /\ genArgs.no_repeat_ngram_size = 2
    /\ \E j \in 2..(Len(genOut) - 1) :
          \A t \in MostLikely(SubSeq(genOut, 1, j)) :
              HasRepeated2Gram(Append(SubSeq(genOut, 1, j), t))

\* the product of the weights of the tokens of seq that follow its first token
RECURSIVE SeqWeight(_)
SeqWeight(seq) ==
    IF Len(seq) <= 1 THEN 1
    ELSE SeqWeight(SubSeq(seq, 1, Len(seq) - 1)) * lm[seq[Len(seq) - 1]][seq[Len(seq)]]

\* the sequences of length len that greedy search can produce from input_ids
RECURSIVE GreedySeqs(_)
GreedySeqs(len) ==
    IF len <= Len(input_ids) THEN {input_ids}
    ELSE { Append(g, t) : g \in GreedySeqs(len - 1), t \in Tokens } \cap
         { s \in [1..len -> Tokens] : s[len] \in MostLikely(SubSeq(s, 1, len - 1)) }

PlainBeam == pc \in {"beam", "beam_done"} /\ genArgs.no_repeat_ngram_size = 0

\* C16: beam search (keep the num_beams most likely hypotheses at each step,
\* return the hypothesis with the highest overall probability) always finds
\* an output sequence with higher probability than greedy search over the
\* same next-token distributions and the same length.
C16_BeamBeatsGreedy ==
    (PlainBeam /\ BeamDone) =>
        \A g \in GreedySeqs(Len(genOut)) : SeqWeight(genOut) > SeqWeight(g)

\* the weaker reading of C16, "at least as probable as greedy", fails too
C16_BeamNotBelowGreedy ==
    (PlainBeam /\ BeamDone) =>
        \A g \in GreedySeqs(Len(genOut)) : SeqWeight(genOut) >= SeqWeight(g)

\* C16, amended: the sequence beam search returns is the most probable of the
\* hypotheses it kept, and while at most two tokens have been generated the
\* most probable kept hypothesis is at least as probable as the greedy
\* sequence of the same length, which is itself among the kept hypotheses
\* after the first step.
C16_BeamNotBelowGreedyUpToTwo ==
    PlainBeam =>
        /\ BeamLen = Len(input_ids) + 1 =>
              \E h \in beams : h.ids \in GreedySeqs(BeamLen)
        /\ BeamLen <= Len(input_ids) + 2 =>
              \A g \in GreedySeqs(BeamLen) :
                  \E h \in beams : SeqWeight(h.ids) >= SeqWeight(g)
        /\ BeamDone =>
              /\ \E h \in beams : h.ids = genOut
              /\ \A h \in beams : SeqWeight(genOut) >= SeqWeight(h.ids)

\* after two generated tokens the kept hypotheses beat greedy strictly, and
\* the greedy sequence is no longer kept
C16_Witness ==
    /\ PlainBeam /\ pc = "beam"
    /\ BeamLen = Len(input_ids) + 2
    /\ \A g \in GreedySeqs(BeamLen), h \in beams :
          SeqWeight(h.ids) > SeqWeight(g)

\* the returned sequence is strictly less probable than the greedy one
C16_BeamBelowGreedy ==
    /\ PlainBeam /\ BeamDone
    /\ \A g \in GreedySeqs(Len(genOut)) : SeqWeight(genOut) < SeqWeight(g)

\* ------------------------------------------------------------------------
\* Properties of greedy search and sampling (checked under SpecGen)
\* ------------------------------------------------------------------------
Generating == pc = "gen"
GenDone == pc = "gen_done"

\* the distribution the next token is chosen from
CurrentRow == lm[ids[Len(ids)]]

\* every generated token of seq is a most likely one after what precedes it
IsGreedySeq(seq) ==
    \A j \in (Len(input_ids) + 1)..Len(seq) :
        \A u \in Tokens : lm[seq[j - 1]][seq[j]] >= lm[seq[j - 1]][u]

TopKOnly(k) ==
    /\ pc \in {"gen", "gen_done"}
    /\ genArgs.do_sample /\ genArgs.top_k = k /\ genArgs.top_p = TopPOff

TopPOnly ==
    /\ pc \in {"gen", "gen_done"}
    /\ genArgs.do_sample /\ genArgs.top_k = 0 /\ genArgs.top_p # TopPOff

\* C17: Top-k sampling with k=1 is equivalent to greedy selection: at every
\* step the tokens that can be sampled are exactly the arg-max tokens, each
\* sampled with probability 1, so the generated sequence is a greedy sequence.
C17_TopOneIsGreedy ==
    TopKOnly(1) =>
        /\ NextTokens(CurrentRow, genArgs) = ArgMaxTokens(CurrentRow)
        /\ \A d \in SamplingDists(CurrentRow, 1, TopPOff) :
              \A t \in Tokens : d[t].num \in {0, d[t].den}
        /\ IsGreedySeq(ids)
        /\ GenDone => genOut = ids

\* a full-length sequence sampled with k=1 whose tokens all had competitors
C17_Witness ==
    /\ TopKOnly(1) /\ GenDone
    /\ Len(genOut) = genArgs.max_length
    /\ \E j \in 2..Len(genOut) : genOut[j] # genOut[j - 1]

\* p is below the probability of the most likely token of row
BelowMostLikely(p, row) ==
    \E t \in DOMAIN row : p.num * SumOver(row, DOMAIN row) < row[t] * p.den

\* C18: Top-p sampling with p below the probability of the most likely token
\* degenerates to greedy selection: every nucleus holds exactly one token,
\* an arg-max token; and when p is below the probability of the most likely
\* token after every token, the generated sequence is a greedy sequence.
C18_SmallPIsGreedy ==
    TopPOnly =>
        /\ BelowMostLikely(genArgs.top_p, CurrentRow) =>
              /\ \A S \in SampleSets(CurrentRow, 0, genArgs.top_p) :
                    \E t \in ArgMaxTokens(CurrentRow) : S = {t}
              /\ NextTokens(CurrentRow, genArgs) = ArgMaxTokens(CurrentRow)
        /\ (\A u \in Tokens : BelowMostLikely(genArgs.top_p, lm[u])) =>
              IsGreedySeq(ids)

\* a sequence generated with p=9/20 below every most likely token's probability
C18_Witness ==
    /\ TopPOnly /\ GenDone
    /\ genArgs.top_p = Prob(9, 20)
    /\ \A u \in Tokens : BelowMostLikely(genArgs.top_p, lm[u])
    /\ Len(genOut) = genArgs.max_length

\* p is at least 1 minus the smallest token probability of row, and below 1
NearOne(p, row) ==
    /\ p.num < p.den
    /\ \E t \in DOMAIN row :
          /\ \A u \in DOMAIN row : row[t] <= row[u]
          /\ p.num * SumOver(row, DOMAIN row)
                >= (SumOver(row, DOMAIN row) - row[t]) * p.den

\* C19: Top-p sampling with p at least 1 minus the smallest token probability
\* (and below 1) degenerates to sampling over the full vocabulary: the
\* nucleus is the whole vocabulary and every token is sampled with the
\* probability the model gives it.
C19_LargePIsFullSampling ==
    (TopPOnly /\ NearOne(genArgs.top_p, CurrentRow)) =>
        /\ SampleSets(CurrentRow, 0, genArgs.top_p) = {Tokens}
        /\ NextTokens(CurrentRow, genArgs) = Tokens
        /\ \A d \in SamplingDists(CurrentRow, 0, genArgs.top_p) :
              \A t \in Tokens : d[t].num * Total = CurrentRow[t] * d[t].den

\* with the notebook's top_p=0.92 the least likely token was sampled, and the
\* next distribution again has p at least 1 minus its smallest probability
C19_Witness ==
    /\ TopPOnly /\ Generating
    /\ genArgs.top_p = Prob(92, 100)
    /\ Len(ids) > Len(input_ids)
    /\ \A u \in Tokens : lm[ids[Len(ids) - 1]][ids[Len(ids)]] <= lm[ids[Len(ids) - 1]][u]
    /\ NearOne(genArgs.top_p, lm[ids[Len(ids) - 1]])
    /\ NearOne(genArgs.top_p, CurrentRow)

\* the context, then one token per step
IsPrefix(a, b) == Len(a) <= Len(b) /\ SubSeq(b, 1, Len(a)) = a

LengthBounded ==
    pc \in {"gen", "gen_done"} =>
        /\ IsPrefix(input_ids, ids)
        /\ Len(ids) <= genArgs.max_length
        /\ GenDone =>
              /\ genOut = ids
              /\ \/ Len(genOut) = genArgs.max_length
                 \/ (Len(genOut) > Len(input_ids) /\ genOut[Len(genOut)] = eos_token_id)

OneTokenPerStep ==
    (Generating /\ ids' # ids) => (Len(ids') = Len(ids) + 1 /\ IsPrefix(ids, ids'))

\* C20: the generation loop always terminates: every step appends one chosen
\* token, the loop stops when the sequence length, context included, reaches
\* max_length or an end marker is produced, so the output length never
\* exceeds max_length and the context is a prefix of the output.
C20_Terminates ==
    /\ []LengthBounded
    /\ [][OneTokenPerStep]_vars
    /\ <>GenDone

\* generation stopped by the end marker before the length limit
C20_Witness ==
    /\ GenDone
    /\ Len(genOut) < genArgs.max_length
    /\ Len(genOut) > Len(input_ids) + 1
    /\ genOut[Len(genOut)] = eos_token_id

\* generation stopped by the length limit
C20_WitnessLength ==
    /\ GenDone
    /\ Len(genOut) = genArgs.max_length
    /\ genOut[Len(genOut)] # eos_token_id

\* ------------------------------------------------------------------------
\* Properties of generate_text (checked under SpecText)
\* ------------------------------------------------------------------------
TextDone == pc = "text_done"

\* C21: generate_text(model, tokenizer, seed_text, max_sequence_len) returns
\* the generated text as a single string (the words of the token sequence
\* grown by the predict / append / drop-first loop). The part stated here is
\* the one every such result has in common: the value returned is a string.
C21_ReturnsGeneratedString == TextDone => IsStr(textRes)

\* ------------------------------------------------------------------------
\* Properties of the OOV-dropping cell (checked under SpecOov)
\* ------------------------------------------------------------------------
OovIndex == tokenizer.word_index.OOV_TOKEN
Increasing(f) == \A i, j \in DOMAIN f : i < j => f[i] < f[j]

\* the rows left are rows that were aligned before, in their order
KeepsAlignedPairs ==
    \E f \in [1..Len(y') -> 1..Len(y)] :
        /\ Increasing(f)
        /\ \A j \in 1..Len(y') : X'[j] = X[f[j]] /\ y'[j] = y[f[j]]

\* C22: after the OOV-dropping step no remaining target in y equals the OOV
\* token's index, X and y have the same number of rows, and every remaining
\* (X[i], y[i]) pair is a pair that was aligned before the step, in the same
\* relative order.
C22_OovDropKeepsAlignedPairs ==
    [][ pc' = "oov_masked" =>
          /\ \A j \in 1..Len(y') : y'[j] # OovIndex
          /\ Len(X') = Len(y')
          /\ KeepsAlignedPairs ]_vars

\* the step has run on targets some of which were the OOV token: fewer rows
\* than the largest input are left, and more than one
C22_Witness ==
    /\ pc = "oov_masked"
    /\ Len(y) = MaxRows - 1 /\ Len(X) = Len(y)
    /\ y[1] # y[Len(y)]

\* ------------------------------------------------------------------------
\* Properties of add_noise (checked under SpecNoise)
\* ------------------------------------------------------------------------
NoiseDone == pc = "noise_done"
InUnitRange(v) == FCmp(v, FZero) >= 0 /\ FCmp(v, FOne) <= 0

\* C23: add_noise returns an array of the same shape as its input in which
\* every value lies between 0 and 1 inclusive, for any input and any noise
\* draw.
C23_NoisyInUnitRange ==
    NoiseDone =>
        /\ noiseRes.shape = noiseArgs.x.shape
        /\ DOMAIN noiseRes.data = DOMAIN noiseArgs.x.data
        /\ \A i \in DOMAIN noiseRes.data : InUnitRange(noiseRes.data[i])

\* one value pushed below 0 and one pushed above 1 by the noise, both clipped
C23_Witness ==
    /\ NoiseDone
    /\ \E i, j \in DOMAIN noiseRes.data :
        /\ FCmp(FAdd(noiseArgs.x.data[i], noiseArgs.noise.data[i]), FZero) < 0
        /\ noiseRes.data[i] = FZero
        /\ FCmp(FAdd(noiseArgs.x.data[j], noiseArgs.noise.data[j]), FOne) > 0
        /\ noiseRes.data[j] = FOne

\* ------------------------------------------------------------------------
\* Range of iou (checked under SpecIou)
\* ------------------------------------------------------------------------
\* the areas of the overlap and of the union, counted in unit cells
OverlapArea(a, b) == Cardinality(Cells(a) \cap Cells(b))
UnionArea(a, b) == Cardinality(Cells(a) \cup Cells(b))

\* C26: for any two boxes with ordered corners whose union area is positive,
\* iou returns a value in the closed range 0 to 1: the intersection area it
\* divides is the area of the overlap, never negative and never larger than
\* either box's area, and the divisor is the area of the union.
C26_IouInUnitRange ==
    (IouDone /\ Ordered(boxA) /\ Ordered(boxB) /\ UnionArea(boxA, boxB) > 0)
        => /\ Returned(iouRes)
           /\ FCmp(iouRes.val, FZero) >= 0 /\ FCmp(iouRes.val, FOne) <= 0
           /\ iouRes.val = FDivInts(OverlapArea(boxA, boxB), UnionArea(boxA, boxB))
           /\ OverlapArea(boxA, boxB) <= Area(boxA)
           /\ OverlapArea(boxA, boxB) <= Area(boxB)

\* two boxes that overlap in part, neither inside the other
C26_Witness ==
    /\ IouDone /\ Positive(boxA) /\ Positive(boxB)
    /\ OverlapArea(boxA, boxB) > 0
    /\ OverlapArea(boxA, boxB) < Area(boxA)
    /\ OverlapArea(boxA, boxB) < Area(boxB)
    /\ Returned(iouRes)
    /\ FCmp(iouRes.val, FZero) > 0 /\ FCmp(iouRes.val, FOne) < 0

\* ------------------------------------------------------------------------
\* Properties of compute_acc, display_prediction and the split (checked
\* under SpecEval)
\* ------------------------------------------------------------------------
EvalDone == pc = "eval_done"

\* position in annotations of the ground truth that outputs[i] is compared
\* against by accuracy_and_iou(outputs, annotations[beg:end])
TruthIndex(i) == SplitBeg(train.val, Len(annotations)) + i
Scored == train # None

\* C24: in compute_acc, for both train=True and train=False, each model
\* output is converted back to full-size coordinates using the image size of
\* the same annotation whose ground-truth box it is then compared against in
\* accuracy_and_iou.
C24_OutputUsesOwnImageSize ==
    Scored =>
        \A i \in 1..Len(outputs) :
            outputs[i] = interpret_output(bad_model[reprs[TruthIndex(i)]].cls,
                                          bad_model[reprs[TruthIndex(i)]].box,
                                          annotations[TruthIndex(i)].size)

\* the samples compute_acc scores in each split and the samples trained on
\* (inputs = reprs[0:train_num]), as positions counted from 1
ScoredAs(is_train) ==
    (SplitBeg(is_train, Len(annotations)) + 1)..SplitEnd(is_train, Len(annotations))
TrainedOn == 1..train_num

\* C25: for every dataset size n, the train/test boundary used by compute_acc
\* (9*n // 10) equals the boundary used to build the training set
\* (n - n // 10), so no sample scored in the test split of compute_acc was
\* used for training and no training sample is left out of its train split.
C25_SameBoundary ==
    EvalDone =>
        /\ SplitEnd(TRUE, Len(annotations)) = train_num
        /\ SplitBeg(FALSE, Len(annotations)) = train_num
        /\ ScoredAs(FALSE) \cap TrainedOn = {}
        /\ TrainedOn \subseteq ScoredAs(TRUE)

\* the corner-form box b lies inside an image of that size and is ordered
InsideOrdered(b, img_size) ==
    /\ 0 <= b[1] /\ b[1] <= b[3] /\ b[3] <= img_size[1]
    /\ 0 <= b[2] /\ b[2] <= b[4] /\ b[4] <= img_size[2]

\* C27: for any predicted centre-form box (including negative width or height
\* and centres outside the resized image), the corner-form box returned by
\* interpret_output lies inside the image and is ordered:
\* 0 <= x_min <= x_max <= img_size[0] and 0 <= y_min <= y_max <= img_size[1].
C27_InterpretedBoxInsideOrdered ==
    /\ pc # "display" =>
         InsideOrdered(interp.out.bbox, annotations[interp.idx].size)
    /\ Scored =>
         \A i \in 1..Len(outputs) :
             InsideOrdered(outputs[i].bbox, annotations[i].size)

\* ------------------------------------------------------------------------
\* Properties of the dataset setup cell (checked under SpecSetup)
\* ------------------------------------------------------------------------
\* the URLs retrieved and the extractions done by the step being taken
FetchedNow == { fetched'[i] : i \in (Len(fetched) + 1)..Len(fetched') }
ExtractedNow == extracted' > extracted
LastRunOk == cellRun # <<>> /\ cellRun[Len(cellRun)] = "ok"

\* C28: the dataset setup cell of Lab 5 is idempotent: an archive or
\* representation file is downloaded only when no file of that fixed name
\* exists, and the archive is extracted only when the VOCdevkit folder does
\* not exist, so running the cell again after a successful run performs no
\* download and no extraction and leaves the files unchanged.
C28_SetupIdempotent ==
    [][ /\ URL_VOC \in FetchedNow => ~exists(fs, FILE_VOC)
        /\ URL_REPRESENTATIONS \in FetchedNow => ~exists(fs, FILE_REPRESENTATIONS)
        /\ ExtractedNow => ~exists(fs, FOLDER_VOC)
        /\ LastRunOk => /\ fetched' = fetched /\ extracted' = extracted
                        /\ fs' = fs
                        /\ cellRun' = Append(cellRun, "ok") ]_vars

\* a first run that downloaded both files and extracted the archive,
\* followed by a second run
C28_Witness ==
    /\ Len(cellRun) = 2 /\ cellRun[1] = "ok" /\ cellRun[2] = "ok"
    /\ fetched = <<URL_VOC, URL_REPRESENTATIONS>>
    /\ extracted = 1
    /\ \A name \in DOMAIN fs : fs[name] = "whole"

====
